---- MODULE Spec2Model ----
(***************************************************************************)
(* A state-machine model of the infinitedsp core: block processors with    *)
(* ring buffers, scratch buffers, chains and mixers.                       *)
(*                                                                         *)
(* Conventions                                                             *)
(*  - f32 samples are fixed-point integers: the real value v is the       *)
(*    integer v * One, and a product is rounded down to that grid.         *)
(*  - Rust slices and Vecs that the code indexes are functions over        *)
(*    0 .. len-1, so that every index is the index the code computes.      *)
(*    Audio blocks handed to process() are sequences (1 .. n).             *)
(*  - A Rust panic sets the processor's fault field to the kind of panic  *)
(*    ("scratch": element 0 of an empty scratch vector, "ring": a ring     *)
(*    slot out of range, "underflow": a usize subtraction below zero in a  *)
(*    checked build); a faulted processor takes no further step.           *)
(*  - sel names the processor an execution exercises; the others stay in   *)
(*    their constructed state.                                             *)
(***************************************************************************)
EXTENDS Integers, Sequences, FiniteSets, TLC

VARIABLES sel, rv, dl, lm, pp, pm, ch, lfo, gate, ola, adsr, audio, cv, rlm, par, host, obs

vars == <<sel, rv, dl, lm, pp, pm, ch, lfo, gate, ola, adsr, audio, cv, rlm, par, host, obs>>

\* what a step on one processor leaves alone
Keep_rv == UNCHANGED <<sel, dl, lm, pp, pm, ch, lfo, gate, ola, adsr, audio, cv, rlm, par, host>>
Keep_dl == UNCHANGED <<sel, rv, lm, pp, pm, ch, lfo, gate, ola, adsr, audio, cv, rlm, par, host>>
Keep_lm == UNCHANGED <<sel, rv, dl, pp, pm, ch, lfo, gate, ola, adsr, audio, cv, rlm, par, host>>
Keep_pp == UNCHANGED <<sel, rv, dl, lm, pm, ch, lfo, gate, ola, adsr, audio, cv, rlm, par, host>>
Keep_pm == UNCHANGED <<sel, rv, dl, lm, pp, ch, lfo, gate, ola, adsr, audio, cv, rlm, par, host>>
Keep_ch == UNCHANGED <<sel, rv, dl, lm, pp, pm, lfo, gate, ola, adsr, audio, cv, rlm, par, host>>
Keep_lfo == UNCHANGED <<sel, rv, dl, lm, pp, pm, ch, gate, ola, adsr, audio, cv, rlm, par, host>>
Keep_gate == UNCHANGED <<sel, rv, dl, lm, pp, pm, ch, lfo, ola, adsr, audio, cv, rlm, par, host>>
Keep_ola == UNCHANGED <<sel, rv, dl, lm, pp, pm, ch, lfo, gate, adsr, audio, cv, rlm, par, host>>
Keep_adsr == UNCHANGED <<sel, rv, dl, lm, pp, pm, ch, lfo, gate, ola, cv, rlm, par, host>>
Keep_cv == UNCHANGED <<sel, rv, dl, lm, pp, pm, ch, lfo, gate, ola, adsr, audio, rlm, par, host>>
Keep_rlm == UNCHANGED <<sel, rv, dl, lm, pp, pm, ch, lfo, gate, ola, adsr, audio, cv, par, host>>
Keep_par == UNCHANGED <<sel, rv, dl, lm, pp, pm, ch, lfo, gate, ola, adsr, audio, cv, rlm, host>>

---------------------------------------------------------------------------
(* Bounds of the model *)

\* fractional bits of the fixed-point sample grid
FracBits == 10
\* longest block, in samples, handed to one process() call
MaxBlock == 6
\* most frames a processor is fed in one execution
MaxTotal == 8
\* most process() calls made on a processor whose blocks are not counted in frames
MaxCalls == 2

One == 2 ^ FracBits
Half == One \div 2

\* f32 multiplication on the fixed-point grid
Mul(a, b) == (a * b) \div One

\* the fixed-point value of the decimal num/den
Fx(num, den) == (num * One) \div den

Clamp(x, lo, hi) == IF x < lo THEN lo ELSE IF x > hi THEN hi ELSE x

Min(a, b) == IF a < b THEN a ELSE b
Max(a, b) == IF a > b THEN a ELSE b

\* sample values a host block is drawn from
SampleVals == {0, One}

\* a block of n samples, all equal to v
Block(n, v) == [i \in 1 .. n |-> v]

\* Vec::new() / vec![v; n] as a function over 0 .. n-1
Vec(n, v) == [i \in 0 .. n - 1 |-> v]

VecLen(f) == Cardinality(DOMAIN f)

\* Vec::resize(n, 0.0) when the vector is shorter than n (never shrinks)
GrowTo(f, n) ==
    IF VecLen(f) < n
    THEN [i \in 0 .. n - 1 |-> IF i \in DOMAIN f THEN f[i] ELSE 0]
    ELSE f

\* AudioParam::process for a Static parameter: fills slice[0..n] with v
ParamFill(f, n, v) == [i \in DOMAIN f |-> IF i < n THEN v ELSE f[i]]

---------------------------------------------------------------------------
(* Reverb: effects/time/reverb.rs *)

\* ring lengths of the comb and allpass banks (the 44.1 kHz tunings, scaled
\* down so that a block can reach a ring's wrap point)
CombLengths == <<5, 7>>
AllpassLengths == <<6>>

DelayLine_new(size) == [buffer |-> Vec(size, 0), index |-> 0]

Comb_new(size) == [delay |-> DelayLine_new(size), filter_store |-> 0]

Allpass_new(size) == [delay |-> DelayLine_new(size), feedback |-> Half]

Reverb_new ==
    [combs |-> [k \in DOMAIN CombLengths |-> Comb_new(CombLengths[k])],
     allpasses |-> [k \in DOMAIN AllpassLengths |-> Allpass_new(AllpassLengths[k])],
     room_size |-> Fx(8, 10),
     damping |-> Fx(2, 10),
     mono_input |-> Vec(0, 0),
     reverb_out |-> Vec(0, 0),
     room_size_buffer |-> Vec(0, 0),
     damping_buffer |-> Vec(0, 0),
     fault |-> "none",
     total |-> 0]

\* the comb body on ring slot `slot` for sample i (reverb.rs 49-55, 75-80, 85-90)
CombTouch(s, x, i, slot, feedback, damp) ==
    IF slot \notin DOMAIN s.c.delay.buffer
    THEN [s EXCEPT !.fault = TRUE]
    ELSE LET buf_val == s.c.delay.buffer[slot]
             store == Mul(buf_val, One - damp) + Mul(s.c.filter_store, damp)
         IN  [s EXCEPT !.out[i] = @ + buf_val,
                       !.c.filter_store = store,
                       !.c.delay.buffer[slot] = x + Mul(store, feedback)]

\* the allpass body on ring slot `slot` for sample i
AllpassTouch(s, x, i, slot, feedback, damp) ==
    IF slot \notin DOMAIN s.c.delay.buffer
    THEN [s EXCEPT !.fault = TRUE]
    ELSE LET buf_out == s.c.delay.buffer[slot]
             new_buf == s.out[i] + Mul(buf_out, feedback)
         IN  [s EXCEPT !.out[i] = buf_out - Mul(new_buf, feedback),
                       !.c.delay.buffer[slot] = new_buf]

LineTouch(kind, s, x, i, slot, feedback, damp) ==
    IF kind = "comb" THEN CombTouch(s, x, i, slot, feedback, damp)
    ELSE AllpassTouch(s, x, i, slot, feedback, damp)

\* how a loop of a delay-line block moves the index after one sample:
\*   "chunk": not at all (the chunk loop addresses slots index + i)
\*   "rem":   index += 1 with no wrap (lines 81, 140)
\*   "slow":  index += 1 and wrap at len (lines 92-95, 151-154)
LineAdvance(mode, t) ==
    IF t.fault \/ mode = "chunk" THEN t
    ELSE IF mode = "rem" THEN [t EXCEPT !.c.delay.index = @ + 1]
    ELSE [t EXCEPT !.c.delay.index = IF @ + 1 >= VecLen(t.c.delay.buffer) THEN 0 ELSE @ + 1]

\* one loop of a delay-line block over samples i .. hi-1
RECURSIVE LineLoop(_, _, _, _, _, _, _, _)
LineLoop(kind, mode, s, input, i, hi, feedback, damp) ==
    IF i >= hi \/ s.fault THEN s
    ELSE LineLoop(kind, mode,
                  LineAdvance(mode,
                      LineTouch(kind, s, input[i], i,
                                IF mode = "chunk" THEN s.c.delay.index + i ELSE s.c.delay.index,
                                feedback, damp)),
                  input, i + 1, hi, feedback, damp)

\* lines 69-72, 127-130: index += block_size, reset only when it equals len
LineSkip(s, bs) ==
    [s EXCEPT !.c.delay.index =
        IF @ + bs = VecLen(s.c.delay.buffer) THEN 0 ELSE @ + bs]

\* A comb or allpass over a block of bs samples: the fast path when the block
\* ends before the ring does, the wrapping path otherwise.
LineBlock(kind, line, input, output, bs, feedback, damp) ==
    IF line.delay.index + bs <= VecLen(line.delay.buffer)
    THEN LineLoop(kind, "rem",
                  LineSkip(LineLoop(kind, "chunk", [c |-> line, out |-> output, fault |-> FALSE],
                                    input, 0, 4 * (bs \div 4), feedback, damp), bs),
                  input, 4 * (bs \div 4), bs, feedback, damp)
    ELSE LineLoop(kind, "slow", [c |-> line, out |-> output, fault |-> FALSE],
                  input, 0, bs, feedback, damp)

DelayLine_process_comb_block(comb, input, output, bs, feedback, damp) ==
    LineBlock("comb", comb, input, output, bs, feedback, damp)

DelayLine_process_allpass_block(ap, block, bs) ==
    LineBlock("allpass", ap, block, block, bs, ap.feedback, 0)

\* lines 332-338: every comb adds into the output slice, then every allpass
\* filters it in place; k runs over the combs and then the allpasses
BankStore(s, k, res) ==
    IF k <= Len(s.combs)
    THEN [s EXCEPT !.combs[k] = res.c, !.out = res.out, !.fault = res.fault]
    ELSE [s EXCEPT !.allpasses[k - Len(s.combs)] = res.c, !.out = res.out, !.fault = res.fault]

RECURSIVE ReverbBank(_, _, _, _, _, _)
ReverbBank(s, k, mono, frames, room_size_val, damping_val) ==
    IF k > Len(s.combs) + Len(s.allpasses) \/ s.fault THEN s
    ELSE ReverbBank(
            BankStore(s, k,
                IF k <= Len(s.combs)
                THEN DelayLine_process_comb_block(s.combs[k], mono, s.out, frames,
                                                  room_size_val, damping_val)
                ELSE DelayLine_process_allpass_block(s.allpasses[k - Len(s.combs)],
                                                     s.out, frames)),
            k + 1, mono, frames, room_size_val, damping_val)

\* lines 299-317: grow the scratch vectors and sample the parameters
ReverbScratch(r, frames) ==
    [r EXCEPT !.mono_input = GrowTo(@, frames),
              !.reverb_out = GrowTo(@, frames),
              !.room_size_buffer = ParamFill(GrowTo(@, frames), frames, r.room_size),
              !.damping_buffer = ParamFill(GrowTo(@, frames), frames, r.damping)]

\* lines 322-326: the scaled mono downmix of the whole frames
ReverbDownmix(r, buffer, frames) ==
    [i \in DOMAIN r.mono_input |->
        IF i < frames
        THEN Mul(Mul(buffer[2 * i + 1] + buffer[2 * i + 2], Half), Fx(15, 1000))
        ELSE r.mono_input[i]]

\* lines 340-346 and the state the call leaves
ReverbFinish(r, mono, done, buffer, frames) ==
    [st |-> [r EXCEPT !.mono_input = mono,
                      !.reverb_out = done.out,
                      !.combs = done.combs,
                      !.allpasses = done.allpasses,
                      !.fault = IF done.fault THEN "ring" ELSE "none",
                      !.total = @ + frames],
     buf |-> IF done.fault THEN buffer
             ELSE [i \in 1 .. Len(buffer) |->
                      IF (i + 1) \div 2 <= frames THEN done.out[(i - 1) \div 2]
                      ELSE buffer[i]]]

ReverbMesh(r, mono, buffer, frames) ==
    ReverbFinish(r, mono,
        ReverbBank([combs |-> r.combs, allpasses |-> r.allpasses,
                    out |-> [i \in DOMAIN r.reverb_out |-> 0], fault |-> FALSE],
                   1, mono, frames,
                   Clamp(r.room_size_buffer[0], 0, Fx(98, 100)),
                   Clamp(r.damping_buffer[0], 0, One)),
        buffer, frames)

ReverbBody(r, buffer, frames) ==
    IF 0 \notin DOMAIN r.room_size_buffer
    THEN \* line 319: element 0 of an empty scratch vector
         [st |-> [r EXCEPT !.fault = "scratch"], buf |-> buffer]
    ELSE ReverbMesh(r, ReverbDownmix(r, buffer, frames), buffer, frames)

\* Reverb::process on an interleaved stereo block; the result is the new
\* state and the block as the call leaves it.
Reverb_process(r, buffer) ==
    ReverbBody(ReverbScratch(r, Len(buffer) \div 2), buffer, Len(buffer) \div 2)

\* what a caller can observe of a Reverb: its rings and indices
ReverbRings(r) ==
    [combs |-> r.combs, allpasses |-> r.allpasses, fault |-> r.fault]

\* one process() call
ReverbStep(res, n) ==
    /\ rv' = res.st
    /\ obs' = [op |-> "process", n |-> n, before |-> rv, out |-> res.buf]

ReverbProcess ==
    /\ sel = "reverb"
    /\ rv.fault = "none"
    /\ \E n \in 0 .. MaxBlock, v \in SampleVals :
          /\ rv.total + n \div 2 <= MaxTotal
          /\ ReverbStep(Reverb_process(rv, Block(n, v)), n)
    /\ Keep_rv

\* two consecutive process() calls of f1 and f2 frames; obs keeps what one
\* call on the f1 + f2 frames would have produced from the same state
ReverbTwiceStep(first, second, single, f1, f2) ==
    /\ first.st.fault = "none"
    /\ rv' = second.st
    /\ obs' = [op |-> "twice", f1 |-> f1, f2 |-> f2,
               out |-> first.buf \o second.buf,
               rings |-> ReverbRings(second.st),
               single_out |-> single.buf,
               single_rings |-> ReverbRings(single.st)]

ReverbSecond(first, b1, b2, f1, f2) ==
    ReverbTwiceStep(first, Reverb_process(first.st, b2), Reverb_process(rv, b1 \o b2), f1, f2)

ReverbProcessTwice ==
    /\ sel = "reverb"
    /\ rv.fault = "none"
    /\ \E f1 \in 1 .. MaxBlock \div 2, f2 \in 1 .. MaxBlock \div 2,
          v \in SampleVals, w \in SampleVals :
          /\ rv.total + f1 + f2 <= MaxTotal
          /\ ReverbSecond(Reverb_process(rv, Block(2 * f1, v)),
                          Block(2 * f1, v), Block(2 * f2, w), f1, f2)
    /\ Keep_rv

ReverbNext == ReverbProcess \/ ReverbProcessTwice

---------------------------------------------------------------------------
(* Delay: effects/time/delay.rs *)

\* the construction-time sample rate (44100 in the source), scaled down so
\* that a ring of max_delay_seconds * SampleRate slots is a few slots long
SampleRate == 4

\* f32 -> usize: truncates, and saturates at 0 for negative values
AsUsize(x) == IF x < 0 THEN 0 ELSE x \div One

\* f32::round() followed by `as usize`
RoundUsize(x) == AsUsize(IF x < 0 THEN x ELSE x + Half)

Delay_new(max_delay_seconds, delay_time, feedback, mix) ==
    [buffer |-> Vec(AsUsize(max_delay_seconds * SampleRate), 0),
     write_ptr |-> 0,
     delay_samples |-> Min(SampleRate \div 2,
                           Max(AsUsize(max_delay_seconds * SampleRate) - 1, 0)),
     delay_time |-> delay_time,
     feedback |-> feedback,
     mix |-> mix,
     sample_rate |-> SampleRate,
     delay_buffer |-> Vec(0, 0),
     feedback_buffer |-> Vec(0, 0),
     mix_buffer |-> Vec(0, 0),
     fault |-> "none",
     calls |-> 0]

\* lines 70-76: grow the scratch vectors and sample the three parameters
DelayScratch(d, bs) ==
    [d EXCEPT !.delay_buffer = ParamFill(GrowTo(@, bs), bs, d.delay_time),
              !.feedback_buffer = ParamFill(GrowTo(@, bs), bs, d.feedback),
              !.mix_buffer = ParamFill(GrowTo(@, bs), bs, d.mix)]

\* lines 80-84: the block's delay in samples, from element 0 of the scratch
DelaySamples(d) ==
    [d EXCEPT !.delay_samples =
        Min(RoundUsize(d.delay_buffer[0] * d.sample_rate), VecLen(d.buffer) - 1)]

\* line 86 / line 140
DelayReadPtr(d) ==
    (d.write_ptr + VecLen(d.buffer) - d.delay_samples) % VecLen(d.buffer)

\* the ring a sample reads: a 4-sample chunk loads its delayed values before
\* it stores anything (lines 105-110), the scalar loops read the live ring
DelaySnap(mode, s, old, i) ==
    IF mode = "chunk" /\ i % 4 # 0 THEN old ELSE s.d.buffer

\* one sample of the block: read slot r of `ring`, store at slot w, mix
DelayTouch(mode, s, ring, r, w, i) ==
    [s EXCEPT !.d.buffer[w] = s.buf[i + 1] + Mul(ring[r], s.d.feedback_buffer[i]),
              !.buf[i + 1] = Mul(@, One - s.d.mix_buffer[i])
                             + Mul(ring[r], s.d.mix_buffer[i]),
              !.d.write_ptr = IF mode = "slow" THEN (@ + 1) % VecLen(s.d.buffer) ELSE @]

RECURSIVE DelayLoop(_, _, _, _, _, _)
DelayLoop(mode, s, old, rps, i, hi) ==
    IF i >= hi THEN s
    ELSE DelayLoop(mode,
                   DelayTouch(mode, s, DelaySnap(mode, s, old, i),
                              IF mode = "slow" THEN DelayReadPtr(s.d) ELSE rps + i,
                              IF mode = "slow" THEN s.d.write_ptr ELSE s.d.write_ptr + i,
                              i),
                   DelaySnap(mode, s, old, i), rps, i + 1, hi)

\* line 132
DelayWrap(s, bs) ==
    [s EXCEPT !.d.write_ptr = (@ + bs) % VecLen(s.d.buffer)]

\* lines 86-150 on the state with the block's delay fixed
DelayBlock(d, buffer, bs) ==
    IF d.write_ptr + bs <= VecLen(d.buffer) /\ DelayReadPtr(d) + bs <= VecLen(d.buffer)
    THEN DelayWrap(
            DelayLoop("rem",
                DelayLoop("chunk", [d |-> d, buf |-> buffer], d.buffer,
                          DelayReadPtr(d), 0, 4 * (bs \div 4)),
                d.buffer, DelayReadPtr(d), 4 * (bs \div 4), bs),
            bs)
    ELSE DelayLoop("slow", [d |-> d, buf |-> buffer], d.buffer, 0, 0, bs)

DelayBody(d, buffer, bs) ==
    IF 0 \notin DOMAIN d.delay_buffer
    THEN \* line 80: element 0 of an empty scratch vector
         [d |-> [d EXCEPT !.fault = "scratch"], buf |-> buffer]
    ELSE DelayBlock(DelaySamples(d), buffer, bs)

\* Delay::process on a mono block
Delay_process(d, buffer) ==
    IF VecLen(d.buffer) = 0 THEN [d |-> d, buf |-> buffer]
    ELSE DelayBody(DelayScratch(d, Len(buffer)), buffer, Len(buffer))

\* delay times, in seconds, a host may set: negative, below one sample period
\* short of the ring, and beyond max_delay_seconds
DelayTimes == {0 - One, Fx(1, 4), Fx(3, 4), 3 * One}

DelayStep(res, n) ==
    /\ dl' = [res.d EXCEPT !.calls = @ + 1]
    /\ obs' = [op |-> "process", n |-> n, before |-> dl, out |-> res.buf]

DelayProcess ==
    /\ sel = "delay"
    /\ dl.fault = "none"
    /\ dl.calls < MaxCalls
    /\ \E n \in 0 .. MaxBlock, v \in SampleVals :
          /\ DelayStep(Delay_process(dl, Block(n, v)), n)
    /\ Keep_dl

\* Delay::set_delay_time with a Static parameter
DelaySetDelayTime ==
    /\ sel = "delay"
    /\ dl.fault = "none"
    /\ \E t \in DelayTimes :
          /\ dl' = [dl EXCEPT !.delay_time = t]
          /\ obs' = [op |-> "set_delay_time"]
    /\ Keep_dl

DelayNext == DelayProcess \/ DelaySetDelayTime

\* --- Delay with a constant delay of a whole number of samples ---

\* the delay in samples that process() derives from a Static delay_time
\* (lines 80-84)
DelayWholeSamples(d) ==
    Min(RoundUsize(d.delay_time * d.sample_rate), VecLen(d.buffer) - 1)

\* r[j] of the recurrence, 0 before the start; `r` lists r[0], r[1], ...
DelayWritten(r, j) == IF j < 0 THEN 0 ELSE r[j + 1]

\* the recurrence out[n] = x[n]*(1-m) + r[n-d]*m, r[n] = x[n] + f*r[n-d],
\* continued over one block from the history `r`
RECURSIVE DelayRecurrence(_, _, _, _, _, _)
DelayRecurrence(r, out, x, d, f, m) ==
    IF Len(out) = Len(x) THEN [r |-> r, out |-> out]
    ELSE DelayRecurrence(
            Append(r, x[Len(out) + 1] + Mul(DelayWritten(r, Len(r) - d), f)),
            Append(out, Mul(x[Len(out) + 1], One - m)
                        + Mul(DelayWritten(r, Len(r) - d), m)),
            x, d, f, m)

\* whether process() on a block of bs samples takes the branch of line 91
DelayFastPath(d, bs) ==
    /\ d.write_ptr + bs <= VecLen(d.buffer)
    /\ DelayReadPtr(DelaySamples(DelayScratch(d, bs))) + bs <= VecLen(d.buffer)

\* Delay::new with delays of 1 .. ring length - 1 whole samples
DelayWholeInits ==
    {Delay_new(Fx(5, 4), Fx(d, SampleRate), f, m) :
        d \in 1 .. SampleRate, f \in {0, Half}, m \in {Half, One}}

DelayWholeStep(res, want, n) ==
    /\ dl' = [res.d EXCEPT !.calls = @ + 1]
    /\ obs' = [op |-> "process", n |-> n, before |-> dl, out |-> res.buf,
               want |-> want.out, r |-> want.r]

\* Delay::process on the next block of a stream, beside the recurrence
DelayWholeProcess ==
    /\ sel = "delay_whole"
    /\ dl.fault = "none"
    /\ dl.calls < MaxCalls
    /\ \E n \in 1 .. MaxBlock, v \in SampleVals :
          DelayWholeStep(Delay_process(dl, Block(n, v)),
                         DelayRecurrence(IF obs.op = "none" THEN <<>> ELSE obs.r,
                                         <<>>, Block(n, v), DelayWholeSamples(dl),
                                         dl.feedback, dl.mix),
                         n)
    /\ Keep_dl

\* --- Delay with a delay between two whole numbers of samples ---

\* sample j of a stream, silence before its start
StreamAt(xs, j) == IF j < 1 THEN 0 ELSE xs[j]

\* the stream read delay_time * sample_rate samples back from sample j,
\* by linear interpolation between the two neighbouring samples
DelayInterpolated(xs, j, d) ==
    Mul(StreamAt(xs, j - ((d.delay_time * d.sample_rate) \div One)),
        One - ((d.delay_time * d.sample_rate) % One))
    + Mul(StreamAt(xs, j - ((d.delay_time * d.sample_rate) \div One) - 1),
          (d.delay_time * d.sample_rate) % One)

\* Delay::new(1.0, t, 0.0, mix) with delays of 1/4 .. 6/4 samples
DelayFracInits ==
    {Delay_new(One, Fx(k, 4 * SampleRate), 0, m) : k \in {1, 2, 3, 5, 6}, m \in {Half, One}}

\* the blocks of a host: an impulse followed by silence, or a constant
DelayFracBlocks ==
    {[i \in 1 .. n |-> IF i = 1 THEN v ELSE w] :
        n \in 1 .. MaxBlock, v \in SampleVals, w \in SampleVals}

\* Delay::process on the next block of a stream; obs.xs is the stream so far
DelayFracProcess ==
    /\ sel = "delay_frac"
    /\ dl.fault = "none"
    /\ dl.calls < MaxCalls
    /\ \E x \in DelayFracBlocks :
          /\ dl' = [Delay_process(dl, x).d EXCEPT !.calls = @ + 1]
          /\ obs' = [op |-> "process", n |-> Len(x), x |-> x,
                     xs |-> (IF obs.op = "none" THEN << >> ELSE obs.xs) \o x,
                     out |-> Delay_process(dl, x).buf,
                     whole |-> IF DelayWholeSamples(dl) = 0 THEN << >>
                               ELSE DelayRecurrence(
                                        IF obs.op = "none" THEN << >> ELSE obs.xs,
                                        << >>, x, DelayWholeSamples(dl), dl.feedback,
                                        dl.mix).out,
                     fast |-> DelayFastPath(dl, Len(x))]
    /\ Keep_dl

---------------------------------------------------------------------------
(* DelayLowMem: low_mem/effects/time/delay_low_mem.rs *)

\* PARAM_CHUNK_SIZE (64 in the source), scaled down with the blocks
PARAM_CHUNK_SIZE == 5

I16_SCALE == 32767

\* division that truncates toward zero, as a float-to-integer cast does
Quot(a, b) == IF a < 0 THEN 0 - ((0 - a) \div b) ELSE a \div b

DelayLowMem_new(max_delay_seconds, delay_time, feedback, mix) ==
    [buffer |-> Vec(AsUsize((max_delay_seconds * SampleRate) \div 2), 0),
     write_ptr |-> 0,
     phase |-> 0,
     downsample_acc |-> 0,
     delay_time |-> delay_time,
     feedback |-> feedback,
     mix |-> mix,
     max_delay_seconds |-> max_delay_seconds,
     sample_rate |-> SampleRate,
     delay_buffer |-> Vec(PARAM_CHUNK_SIZE, 0),
     feedback_buffer |-> Vec(PARAM_CHUNK_SIZE, 0),
     mix_buffer |-> Vec(PARAM_CHUNK_SIZE, 0),
     fault |-> "none",
     calls |-> 0]

\* lines 121-122, 178-181, 278-279: one wrap in each direction
LowMemNorm(read_ptr, len_f) ==
    IF read_ptr < 0 THEN read_ptr + len_f
    ELSE IF read_ptr >= len_f THEN read_ptr - len_f
    ELSE read_ptr

\* lines 136-140: cubic Hermite interpolation
LowMemHermite(val_prev, val_a, val_b, val_next, frac) ==
    Mul(Mul(Mul(((val_next - val_prev) \div 2)
                    + ((3 * (val_a - val_b)) \div 2), frac)
            + (val_prev - ((5 * val_a) \div 2) + 2 * val_b - (val_next \div 2)), frac)
        + ((val_b - val_prev) \div 2), frac)
    + val_a

\* an i16 slot as f32 (lines 131-134)
LowMemVal(ring, idx) == Quot(ring[idx] * One, I16_SCALE)

\* lines 124-140 on the four slots around idx_a
LowMemTapAt(ring, len, read_ptr_norm, idx_a, idx_b) ==
    IF idx_a \notin DOMAIN ring \/ idx_b \notin DOMAIN ring
       \/ (idx_a # 0 /\ idx_a - 1 \notin DOMAIN ring)
       \/ (idx_b + 1 # len /\ idx_b + 1 \notin DOMAIN ring)
    THEN [fault |-> TRUE, val |-> 0]
    ELSE [fault |-> FALSE,
          val |-> LowMemHermite(
                     LowMemVal(ring, IF idx_a = 0 THEN len - 1 ELSE idx_a - 1),
                     LowMemVal(ring, idx_a),
                     LowMemVal(ring, idx_b),
                     LowMemVal(ring, IF idx_b + 1 = len THEN 0 ELSE idx_b + 1),
                     read_ptr_norm - idx_a * One)]

\* the delayed sample for the read position read_ptr_norm
LowMemTap(ring, len, read_ptr_norm) ==
    LowMemTapAt(ring, len, read_ptr_norm, AsUsize(read_ptr_norm),
                IF AsUsize(read_ptr_norm) + 1 = len THEN 0 ELSE AsUsize(read_ptr_norm) + 1)

\* `(x * I16_SCALE) as i16` of a sample clamped to [-1, 1]
LowMemToI16(x) == Quot(Clamp(x, 0 - One, One) * I16_SCALE, One)

\* a store that writes a slot on every frame instead of on every second one
LowMemStore_every_frame(s, tap, i, k) ==
    IF tap.fault THEN [s EXCEPT !.d.fault = "ring"]
    ELSE [s EXCEPT
            !.buf[i + 1] = Mul(@, One - s.d.mix_buffer[k]) + Mul(tap.val, s.d.mix_buffer[k]),
            !.d.buffer =
                [@ EXCEPT ![s.d.write_ptr] =
                    LowMemToI16((s.d.downsample_acc + s.buf[i + 1]
                                 + Mul(tap.val, s.d.feedback_buffer[k])) \div 2)],
            !.d.write_ptr = IF @ + 1 = VecLen(s.d.buffer) THEN 0 ELSE @ + 1,
            !.d.phase = 1 - @]

\* one sample given its delayed value: lines 142-152 and 299-314; k is the
\* sample's index in its parameter chunk
LowMemStore(s, tap, i, k) ==
    IF tap.fault THEN [s EXCEPT !.d.fault = "ring"]
    ELSE [s EXCEPT
            !.buf[i + 1] = Mul(@, One - s.d.mix_buffer[k]) + Mul(tap.val, s.d.mix_buffer[k]),
            !.d.downsample_acc =
                IF s.d.phase = 0 THEN s.buf[i + 1] + Mul(tap.val, s.d.feedback_buffer[k])
                ELSE @,
            !.d.buffer =
                IF s.d.phase = 1
                THEN [@ EXCEPT ![s.d.write_ptr] =
                        LowMemToI16((s.d.downsample_acc + s.buf[i + 1]
                                     + Mul(tap.val, s.d.feedback_buffer[k])) \div 2)]
                ELSE @,
            !.d.write_ptr =
                IF s.d.phase = 0 THEN @
                ELSE IF @ + 1 = VecLen(s.d.buffer) THEN 0 ELSE @ + 1,
            !.d.phase = 1 - @]

\* samples i .. hi-1 one after the other, each reading `old` when a vector
\* group loaded its four taps before storing (lines 212-230) and the live
\* ring otherwise
RECURSIVE LowMemLoop(_, _, _, _, _, _)
LowMemLoop(mode, s, old, lo, i, hi) ==
    IF i >= hi \/ s.d.fault # "none" THEN s
    ELSE LowMemLoop(mode,
            LowMemStore(s,
                LowMemTap(IF mode = "vec" THEN old ELSE s.d.buffer,
                          VecLen(s.d.buffer),
                          LowMemNorm(s.d.write_ptr * One + s.d.phase * Half
                                     - s.d.delay_buffer[i - lo] * (s.d.sample_rate \div 2),
                                     VecLen(s.d.buffer) * One)),
                i, i - lo),
            old, lo, i + 1, hi)

\* lines 155-266: a group of four samples at read positions write_ptr + 0,
\* 0.5, 1, 1.5, stored as two slots; the group keeps its pair sums in
\* registers and leaves downsample_acc alone
LowMemVec(s, lo, i) ==
    [LowMemLoop("vec", s, s.d.buffer, lo, i, i + 4)
        EXCEPT !.d.downsample_acc = s.d.downsample_acc]

\* the vector loop and then the scalar loop of one parameter chunk
RECURSIVE LowMemVecs(_, _, _, _)
LowMemVecs(s, lo, i, hi) ==
    IF s.d.fault # "none" THEN s
    ELSE IF i + 4 <= hi /\ s.d.write_ptr + 2 <= VecLen(s.d.buffer)
    THEN LowMemVecs(LowMemVec(s, lo, i), lo, i + 4, hi)
    ELSE LowMemLoop("scalar", s, s.d.buffer, lo, i, hi)

\* lines 100-107: the three parameters sampled for the chunk
LowMemParams(s, chunk_len) ==
    [s EXCEPT !.d.delay_buffer = ParamFill(@, chunk_len, s.d.delay_time),
              !.d.feedback_buffer = ParamFill(@, chunk_len, s.d.feedback),
              !.d.mix_buffer = ParamFill(@, chunk_len, s.d.mix)]

\* lines 109-315: the phase-1 prefix sample, then the two loops
LowMemChunk(s, lo, hi) ==
    IF s.d.phase = 1 /\ lo < hi
    THEN LowMemVecs(LowMemLoop("scalar", s, s.d.buffer, lo, lo, lo + 1), lo, lo + 1, hi)
    ELSE LowMemVecs(s, lo, lo, hi)

RECURSIVE LowMemChunks(_, _, _)
LowMemChunks(s, lo, n) ==
    IF lo >= n \/ s.d.fault # "none" THEN s
    ELSE LowMemChunks(
            LowMemChunk(LowMemParams(s, Min(PARAM_CHUNK_SIZE, n - lo)),
                        lo, Min(lo + PARAM_CHUNK_SIZE, n)),
            lo + PARAM_CHUNK_SIZE, n)

\* DelayLowMem::process on a mono block
DelayLowMem_process(d, buffer) ==
    IF VecLen(d.buffer) = 0 THEN [d |-> d, buf |-> buffer]
    ELSE LowMemChunks([d |-> d, buf |-> buffer], 0, Len(buffer))

\* DelayLowMem::reset
DelayLowMem_reset(d) ==
    [d EXCEPT !.buffer = [i \in DOMAIN @ |-> 0],
              !.write_ptr = 0,
              !.phase = 0,
              !.downsample_acc = 0]

\* delay times, in seconds, a host may set: negative, a fraction of a slot,
\* two slots, and beyond max_delay_seconds
LowMemTimes == {0 - 5 * One, Fx(1, 4), One, 4 * One}

LowMemStep(res, fresh, n) ==
    /\ lm' = [res.d EXCEPT !.calls = @ + 1]
    /\ obs' = [op |-> "process", n |-> n, before |-> lm, out |-> res.buf,
               after_reset |-> obs.op = "reset", fresh_out |-> fresh.buf]

DelayLowMemProcess ==
    /\ sel = "lowmem"
    /\ lm.fault = "none"
    /\ lm.calls < MaxCalls
    /\ \E n \in 0 .. MaxBlock, v \in SampleVals :
          LowMemStep(DelayLowMem_process(lm, Block(n, v)),
                     DelayLowMem_process(
                         DelayLowMem_new(lm.max_delay_seconds, lm.delay_time,
                                         lm.feedback, lm.mix),
                         Block(n, v)),
                     n)
    /\ Keep_lm

\* DelayLowMem::set_delay_time with a Static parameter
DelayLowMemSetDelayTime ==
    /\ sel = "lowmem"
    /\ lm.fault = "none"
    /\ \E t \in LowMemTimes :
          /\ lm' = [lm EXCEPT !.delay_time = t]
          /\ obs' = [op |-> "set_delay_time"]
    /\ Keep_lm

DelayLowMemReset ==
    /\ sel = "lowmem"
    /\ lm.fault = "none"
    /\ lm' = DelayLowMem_reset(lm)
    /\ obs' = [op |-> "reset"]
    /\ Keep_lm

DelayLowMemNext == DelayLowMemProcess \/ DelayLowMemSetDelayTime \/ DelayLowMemReset

---------------------------------------------------------------------------
(* ReverbLowMem: low_mem/effects/time/reverb_low_mem.rs *)

\* the comb and allpass tunings and the stereo spread (1116 .. 1617,
\* 556 .. 225 and 23 in the source), scaled down to rings of 1 to 4 slots
comb_tuning == <<2, 4, 4, 6, 2, 4, 6, 6>>
allpass_tuning == <<4, 2>>
stereo_spread == 2

\* Comb4LowMem::new: four rings of half the tuned length; the splatted
\* feedback and damping are kept once
Comb4LowMem_new(sizes, feedback, damp) ==
    [buffers |-> [k \in 1 .. 4 |-> Vec(sizes[k] \div 2, 0)],
     pos |-> [k \in 1 .. 4 |-> 0],
     feedback |-> feedback, damp |-> damp, damp_inv |-> One - damp,
     filter_state |-> [k \in 1 .. 4 |-> 0]]

Comb4LowMem_set_params(c, feedback, damp, damp_inv) ==
    [c EXCEPT !.feedback = feedback, !.damp = damp, !.damp_inv = damp_inv]

\* Comb4LowMem::process_downsampled on the splatted input
Comb4LowMem_process_downsampled(c, input) ==
    [c |-> [c EXCEPT
              !.buffers = [k \in 1 .. 4 |->
                  [c.buffers[k] EXCEPT ![c.pos[k]] =
                      LowMemToI16(input + Mul(c.filter_state[k], c.feedback))]],
              !.filter_state = [k \in 1 .. 4 |->
                  Mul(LowMemVal(c.buffers[k], c.pos[k]), c.damp_inv)
                  + Mul(c.filter_state[k], c.damp)],
              !.pos = [k \in 1 .. 4 |->
                  IF c.pos[k] + 1 >= VecLen(c.buffers[k]) THEN 0 ELSE c.pos[k] + 1]],
     delayed |-> [k \in 1 .. 4 |-> LowMemVal(c.buffers[k], c.pos[k])]]

AllpassLowMem_new(size) == [buffer |-> Vec(size \div 2, 0), pos |-> 0, feedback |-> Half]

\* AllpassLowMem::process_downsampled
AllpassLowMem_process_downsampled(ap, input) ==
    [ap |-> [ap EXCEPT
               !.buffer[ap.pos] =
                   LowMemToI16(input + Mul(LowMemVal(ap.buffer, ap.pos) - input,
                                           ap.feedback)),
               !.pos = IF ap.pos + 1 >= VecLen(ap.buffer) THEN 0 ELSE ap.pos + 1],
     out |-> LowMemVal(ap.buffer, ap.pos) - input]

\* ReverbLowMem::new
ReverbLowMem_new ==
    [combs_l |-> <<Comb4LowMem_new([k \in 1 .. 4 |-> comb_tuning[k]],
                                   Fx(8, 10), Fx(2, 10)),
                   Comb4LowMem_new([k \in 1 .. 4 |-> comb_tuning[k + 4]],
                                   Fx(8, 10), Fx(2, 10))>>,
     combs_r |-> <<Comb4LowMem_new([k \in 1 .. 4 |-> comb_tuning[k] + stereo_spread],
                                   Fx(8, 10), Fx(2, 10)),
                   Comb4LowMem_new([k \in 1 .. 4 |-> comb_tuning[k + 4] + stereo_spread],
                                   Fx(8, 10), Fx(2, 10))>>,
     allpasses_l |-> [k \in DOMAIN allpass_tuning |->
                         AllpassLowMem_new(allpass_tuning[k])],
     allpasses_r |-> [k \in DOMAIN allpass_tuning |->
                         AllpassLowMem_new(allpass_tuning[k] + stereo_spread)],
     room_size |-> Fx(8, 10), damping |-> Fx(2, 10),
     phase |-> 0, downsample_acc_l |-> 0, downsample_acc_r |-> 0,
     last_out_l |-> 0, last_out_r |-> 0,
     fault |-> "none", calls |-> 0]

\* lines 227-243: the block's feedback and damping handed to every comb
ReverbLowMemParams(r, rs, dp) ==
    [r EXCEPT !.combs_l = [k \in 1 .. 2 |-> Comb4LowMem_set_params(@[k], rs, dp, One - dp)],
              !.combs_r = [k \in 1 .. 2 |-> Comb4LowMem_set_params(@[k], rs, dp, One - dp)]]

\* lines 273-279: the allpasses of one side in series
RECURSIVE ReverbLowMemSeries(_, _, _, _)
ReverbLowMemSeries(combs, aps, k, x) ==
    IF k > Len(aps) THEN [combs |-> combs, allpasses |-> aps, out |-> x]
    ELSE ReverbLowMemSeries(
            combs,
            [aps EXCEPT ![k] = AllpassLowMem_process_downsampled(aps[k], x).ap],
            k + 1,
            AllpassLowMem_process_downsampled(aps[k], x).out)

\* lines 263-279 for one side: the two comb banks added and reduced, then
\* the allpasses
ReverbLowMemSide(c1, c2, aps) ==
    ReverbLowMemSeries(<<c1.c, c2.c>>, aps, 1,
        c1.delayed[1] + c2.delayed[1] + c1.delayed[2] + c2.delayed[2]
        + c1.delayed[3] + c2.delayed[3] + c1.delayed[4] + c2.delayed[4])

\* lines 281-290: the frame written and the state stored
ReverbLowMemEmit(s, i, left, right) ==
    [s EXCEPT !.buf[2 * i + 1] = Mul(s.r.last_out_l + left.out, Half),
              !.buf[2 * i + 2] = Mul(s.r.last_out_r + right.out, Half),
              !.r.combs_l = left.combs, !.r.allpasses_l = left.allpasses,
              !.r.combs_r = right.combs, !.r.allpasses_r = right.allpasses,
              !.r.last_out_l = left.out, !.r.last_out_r = right.out,
              !.r.phase = 0]

\* lines 246-291 on a whole frame whose two inputs mix to input_mix
ReverbLowMemFrame(s, i, input_mix) ==
    IF s.r.phase = 0
    THEN [s EXCEPT !.r.downsample_acc_l = input_mix,
                   !.r.downsample_acc_r = input_mix,
                   !.r.phase = 1,
                   !.buf[2 * i + 1] = s.r.last_out_l,
                   !.buf[2 * i + 2] = s.r.last_out_r]
    ELSE ReverbLowMemEmit(s, i,
            ReverbLowMemSide(
                Comb4LowMem_process_downsampled(s.r.combs_l[1],
                    Mul(s.r.downsample_acc_l + input_mix, Half)),
                Comb4LowMem_process_downsampled(s.r.combs_l[2],
                    Mul(s.r.downsample_acc_l + input_mix, Half)),
                s.r.allpasses_l),
            ReverbLowMemSide(
                Comb4LowMem_process_downsampled(s.r.combs_r[1],
                    Mul(s.r.downsample_acc_l + input_mix, Half)),
                Comb4LowMem_process_downsampled(s.r.combs_r[2],
                    Mul(s.r.downsample_acc_l + input_mix, Half)),
                s.r.allpasses_r))

\* line 245: the chunks of buffer.chunks_mut(2) in order; the chunk of a
\* trailing lone sample has no element 1 for line 247 to read
RECURSIVE ReverbLowMemLoop(_, _)
ReverbLowMemLoop(s, i) ==
    IF 2 * i >= Len(s.buf) THEN s
    ELSE IF 2 * i + 2 > Len(s.buf) THEN [s EXCEPT !.r.fault = "frame"]
    ELSE ReverbLowMemLoop(
            ReverbLowMemFrame(s, i,
                Mul(Mul(s.buf[2 * i + 1], Fx(15, 1000))
                    + Mul(s.buf[2 * i + 2], Fx(15, 1000)), Half)),
            i + 1)

\* ReverbLowMem::process on an interleaved stereo block
ReverbLowMem_process(r, buffer) ==
    ReverbLowMemLoop(
        [r |-> ReverbLowMemParams(r,
                   Min(Mul(Mul(r.room_size, Fx(28, 100)) + Fx(7, 10), Fx(102, 100)),
                       Fx(995, 1000)),
                   Mul(r.damping, Fx(4, 10))),
         buf |-> buffer],
        0)

---------------------------------------------------------------------------
(* PingPongDelay: effects/time/ping_pong_delay.rs *)

PingPongDelay_new(max_delay_seconds, delay_time, feedback, mix) ==
    [left_buffer |-> Vec(AsUsize(max_delay_seconds * SampleRate), 0),
     right_buffer |-> Vec(AsUsize(max_delay_seconds * SampleRate), 0),
     write_ptr |-> 0,
     delay_time |-> delay_time,
     feedback |-> feedback,
     mix |-> mix,
     sample_rate |-> SampleRate,
     delay_buffer |-> Vec(0, 0),
     feedback_buffer |-> Vec(0, 0),
     mix_buffer |-> Vec(0, 0),
     fault |-> "none",
     calls |-> 0]

\* lines 116-136: one whole frame, reading slot read_ptr of both rings
PingPongFrame(s, i, read_ptr) ==
    [s EXCEPT
        !.d.left_buffer[s.d.write_ptr] =
            s.buf[2 * i + 1] + Mul(s.d.right_buffer[read_ptr], s.d.feedback_buffer[i]),
        !.d.right_buffer[s.d.write_ptr] =
            s.buf[2 * i + 2] + Mul(s.d.left_buffer[read_ptr], s.d.feedback_buffer[i]),
        !.buf[2 * i + 1] = Mul(@, One - s.d.mix_buffer[i])
                           + Mul(s.d.left_buffer[read_ptr], s.d.mix_buffer[i]),
        !.buf[2 * i + 2] = Mul(@, One - s.d.mix_buffer[i])
                           + Mul(s.d.right_buffer[read_ptr], s.d.mix_buffer[i]),
        !.d.write_ptr = (@ + 1) % VecLen(s.d.left_buffer)]

\* lines 111-137: the whole frames in order; a trailing half frame ends the loop
RECURSIVE PingPongLoop(_, _, _, _)
PingPongLoop(s, delay_samples, i, frames) ==
    IF i >= frames THEN s
    ELSE PingPongLoop(
            PingPongFrame(s, i, (s.d.write_ptr + VecLen(s.d.left_buffer) - delay_samples)
                                    % VecLen(s.d.left_buffer)),
            delay_samples, i + 1, frames)

\* lines 82-109 and the loop
PingPongBody(d, buffer, frames) ==
    IF 0 \notin DOMAIN d.delay_buffer
    THEN \* line 99: element 0 of an empty scratch vector
         [d |-> [d EXCEPT !.fault = "scratch"], buf |-> buffer]
    ELSE PingPongLoop([d |-> d, buf |-> buffer],
                      Min(RoundUsize(d.delay_buffer[0] * d.sample_rate),
                          VecLen(d.left_buffer) - 1),
                      0, frames)

\* PingPongDelay::process on an interleaved stereo block
PingPongDelay_process(d, buffer) ==
    IF VecLen(d.left_buffer) = 0 THEN [d |-> d, buf |-> buffer]
    ELSE PingPongBody(
            [d EXCEPT !.delay_buffer = ParamFill(GrowTo(@, Len(buffer) \div 2),
                                                 Len(buffer) \div 2, d.delay_time),
                      !.feedback_buffer = ParamFill(GrowTo(@, Len(buffer) \div 2),
                                                    Len(buffer) \div 2, d.feedback),
                      !.mix_buffer = ParamFill(GrowTo(@, Len(buffer) \div 2),
                                               Len(buffer) \div 2, d.mix)],
            buffer, Len(buffer) \div 2)

PingPongStep(res, n) ==
    /\ pp' = [res.d EXCEPT !.calls = @ + 1]
    /\ obs' = [op |-> "process", n |-> n, before |-> pp, out |-> res.buf]

PingPongProcess ==
    /\ sel = "pingpong"
    /\ pp.fault = "none"
    /\ pp.calls < MaxCalls
    /\ \E n \in 0 .. MaxBlock, v \in SampleVals, w \in SampleVals :
          PingPongStep(PingPongDelay_process(pp,
                          [i \in 1 .. n |-> IF i % 2 = 1 THEN v ELSE w]), n)
    /\ Keep_pp

---------------------------------------------------------------------------
(* Lfo: synthesis/lfo.rs *)

Waveforms == {"Sine", "Triangle", "Saw", "Square", "SampleAndHold"}

\* the rng state is a u32, kept as its two 16-bit halves
Lfo_new(frequency, waveform) ==
    [phase |-> 0, frequency |-> frequency, waveform |-> waveform,
     unipolar |-> FALSE, sample_rate |-> SampleRate, freq_buffer |-> Vec(0, 0),
     rng_state |-> [hi |-> 0, lo |-> 12345], last_sh_value |-> 0,
     sh_triggered |-> FALSE, calls |-> 0]

Lfo_set_unipolar(l, unipolar) == [l EXCEPT !.unipolar = unipolar]

\* line 63: rng_state.wrapping_mul(1103515245).wrapping_add(12345) on 32
\* bits; 1103515245 = 16838 * 2^16 + 20077
LfoRngNext(s) ==
    [lo |-> (s.lo * 20077 + 12345) % (2 ^ 16),
     hi |-> (((s.hi * 20077) % (2 ^ 16)) + ((s.lo * 16838) % (2 ^ 16))
             + ((s.lo * 20077 + 12345) \div (2 ^ 16))) % (2 ^ 16)]

\* lines 64-65: ((rng_state >> 16) & 0x7FFF) as f32 / 32768.0 * 2.0 - 1.0
LfoRngValue(s) == ((s.hi % (2 ^ 15)) * 2 * One) \div (2 ^ 15) - One

Lfo_next_random(l) ==
    [l EXCEPT !.rng_state = LfoRngNext(@),
              !.last_sh_value = LfoRngValue(LfoRngNext(l.rng_state))]

\* sinf(phase * 2 pi) at the quarter phases the model's frequencies reach
LfoSin(phase) ==
    CASE phase = 0 -> 0
      [] phase = One \div 4 -> One
      [] phase = Half -> 0
      [] phase = 3 * (One \div 4) -> 0 - One

\* lines 82-87: the phase advanced by inc and wrapped
LfoAdvance(l, inc) ==
    IF l.phase + inc >= One
    THEN [l EXCEPT !.phase = @ + inc - One, !.sh_triggered = FALSE]
    ELSE [l EXCEPT !.phase = @ + inc]

\* lines 106-112: SampleAndHold draws a value when none is held
LfoHold(l) == IF l.sh_triggered THEN l ELSE [Lfo_next_random(l) EXCEPT !.sh_triggered = TRUE]

\* lines 89-113: the value of the waveform at current_phase, on the state
\* the phase advance left
LfoValue(l, current_phase) ==
    CASE l.waveform = "Sine" -> LfoSin(current_phase)
      [] l.waveform = "Triangle" ->
            IF current_phase < Half THEN 4 * current_phase - One
            ELSE 4 * (One - current_phase) - One
      [] l.waveform = "Saw" -> 2 * current_phase - One
      [] l.waveform = "Square" -> IF current_phase < Half THEN One ELSE 0 - One
      [] l.waveform = "SampleAndHold" -> LfoHold(l).last_sh_value

\* lines 115-119
LfoEmit(l, val) == IF l.unipolar THEN Mul(val, Half) + Half ELSE val

\* lines 77-120: the sample loop
RECURSIVE LfoLoop(_, _, _)
LfoLoop(l, out, n) ==
    IF Len(out) = n THEN [l |-> l, buf |-> out]
    ELSE LfoLoop(
            IF l.waveform = "SampleAndHold"
            THEN LfoHold(LfoAdvance(l, l.freq_buffer[Len(out)] \div l.sample_rate))
            ELSE LfoAdvance(l, l.freq_buffer[Len(out)] \div l.sample_rate),
            Append(out, LfoEmit(l,
                LfoValue(LfoAdvance(l, l.freq_buffer[Len(out)] \div l.sample_rate),
                         l.phase))),
            n)

Lfo_process(l, n) ==
    LfoLoop([l EXCEPT !.freq_buffer = Vec(n, l.frequency)], << >>, n)

Lfo_reset(l) == [l EXCEPT !.phase = 0, !.sh_triggered = FALSE]

\* a fresh Lfo with the configuration of l
LfoFresh(l) == Lfo_set_unipolar(Lfo_new(l.frequency, l.waveform), l.unipolar)

\* the observation of a process() call: its output and that of a freshly
\* constructed instance on the same block
ResetObs(n, out, fresh_out) ==
    [op |-> "process", n |-> n, out |-> out,
     after_reset |-> obs.op = "reset", fresh_out |-> fresh_out]

LfoProcess ==
    /\ sel = "lfo"
    /\ lfo.calls < MaxCalls
    /\ \E n \in 0 .. MaxBlock :
          /\ lfo' = [Lfo_process(lfo, n).l EXCEPT !.calls = @ + 1]
          /\ obs' = ResetObs(n, Lfo_process(lfo, n).buf,
                             Lfo_process(LfoFresh(lfo), n).buf)
    /\ Keep_lfo

LfoSetUnipolar ==
    /\ sel = "lfo"
    /\ obs.op = "none"
    /\ \E u \in BOOLEAN :
          /\ lfo' = Lfo_set_unipolar(lfo, u)
          /\ obs' = [op |-> "set_unipolar"]
    /\ Keep_lfo

LfoReset ==
    /\ sel = "lfo"
    /\ lfo' = Lfo_reset(lfo)
    /\ obs' = [op |-> "reset"]
    /\ Keep_lfo

LfoNext == LfoProcess \/ LfoSetUnipolar \/ LfoReset

---------------------------------------------------------------------------
(* TimedGate: effects/utility/gate.rs *)

TimedGate_new(duration_seconds, sample_rate) ==
    [duration_samples |-> AsUsize(duration_seconds * sample_rate),
     current_sample |-> 0, active |-> FALSE, sample_rate |-> sample_rate,
     duration_seconds |-> duration_seconds, calls |-> 0]

TimedGate_trigger(g) == [g EXCEPT !.current_sample = 0, !.active = TRUE]

\* lines 38-48
RECURSIVE TimedGateLoop(_, _, _)
TimedGateLoop(g, out, n) ==
    IF Len(out) = n THEN [g |-> g, buf |-> out]
    ELSE IF g.active
         THEN TimedGateLoop(
                [g EXCEPT !.current_sample = @ + 1,
                          !.active = ~(g.current_sample + 1 >= g.duration_samples)],
                Append(out, One), n)
         ELSE TimedGateLoop(g, Append(out, 0), n)

TimedGate_process(g, n) == TimedGateLoop(g, << >>, n)

TimedGate_reset(g) == [g EXCEPT !.active = FALSE, !.current_sample = 0]

TimedGateProcess ==
    /\ sel = "gate"
    /\ gate.calls < MaxCalls
    /\ \E n \in 0 .. MaxBlock :
          /\ gate' = [TimedGate_process(gate, n).g EXCEPT !.calls = @ + 1]
          /\ obs' = ResetObs(n, TimedGate_process(gate, n).buf,
                             TimedGate_process(
                                 TimedGate_new(gate.duration_seconds, gate.sample_rate),
                                 n).buf)
    /\ Keep_gate

TimedGateTrigger ==
    /\ sel = "gate"
    /\ gate' = TimedGate_trigger(gate)
    /\ obs' = [op |-> "trigger"]
    /\ Keep_gate

TimedGateReset ==
    /\ sel = "gate"
    /\ gate' = TimedGate_reset(gate)
    /\ obs' = [op |-> "reset"]
    /\ Keep_gate

TimedGateNext == TimedGateProcess \/ TimedGateTrigger \/ TimedGateReset

\* --- a TimedGate in a chain of 1 or 2 interleaved channels ---

\* gates of 0, 1 and 3 samples, each with the channel count of the chain
\* that owns it (the ChannelConfig parameter of its process())
TimedGateInits ==
    {TimedGate_new(d, SampleRate) @@ [channels |-> c] :
        d \in {0, Fx(1, SampleRate), Fx(3, SampleRate)}, c \in 1 .. 2}

\* frames since the last trigger(), -1 when there was none
TimedGateSince == IF obs.op = "none" THEN 0 - 1 ELSE obs.since

\* process() on a block of `frames` frames
TimedGateRun ==
    /\ sel = "gate_run"
    /\ gate.calls < MaxCalls
    /\ \E frames \in 0 .. MaxBlock :
          /\ gate' = [TimedGate_process(gate, frames * gate.channels).g
                         EXCEPT !.calls = @ + 1]
          /\ obs' = [op |-> "process", n |-> frames,
                     out |-> TimedGate_process(gate, frames * gate.channels).buf,
                     from |-> TimedGateSince,
                     since |-> IF TimedGateSince < 0 THEN TimedGateSince
                               ELSE TimedGateSince + frames]
    /\ Keep_gate

\* trigger(), also while the gate is high
TimedGateFire ==
    /\ sel = "gate_run"
    /\ gate' = TimedGate_trigger(gate)
    /\ obs' = [op |-> "trigger", since |-> 0]
    /\ Keep_gate

TimedGateRunNext == TimedGateRun \/ TimedGateFire

---------------------------------------------------------------------------
(* Ola: core/ola.rs *)

\* the FFT size N of Ola<P, N> (256 .. 2048 in the source), scaled down
OLA_N == 4

\* lines 130-134: the Hann window 0.5 * (1 - cos(2 pi i / (N - 1))), which
\* for N = 4 is 0, 0.75, 0.75, 0
OlaWindow == [i \in 0 .. OLA_N - 1 |-> IF i \in {0, OLA_N - 1} THEN 0 ELSE Fx(3, 4)]

Complex32_new(re, im) == [re |-> re, im |-> im]

\* c * (-i)^m, the twiddle factors of a 4-point transform
CRot(c, m) ==
    CASE (m % 4) = 0 -> c
      [] (m % 4) = 1 -> Complex32_new(c.im, 0 - c.re)
      [] (m % 4) = 2 -> Complex32_new(0 - c.re, 0 - c.im)
      [] (m % 4) = 3 -> Complex32_new(0 - c.im, c.re)

RECURSIVE CSum(_, _, _)
CSum(buf, k, n) ==
    IF n = OLA_N THEN Complex32_new(0, 0)
    ELSE Complex32_new(CRot(buf[n], n * k).re + CSum(buf, k, n + 1).re,
                       CRot(buf[n], n * k).im + CSum(buf, k, n + 1).im)

\* microfft::complex::cfft_N: X[k] = sum over n of x[n] * e^(-2 pi i n k / N)
Cfft(buf) == [k \in 0 .. OLA_N - 1 |-> CSum(buf, k, 0)]

CConj(buf) == [k \in DOMAIN buf |-> Complex32_new(buf[k].re, 0 - buf[k].im)]

do_fft(buf) == Cfft(buf)

\* conjugate, transform, conjugate and divide by N
do_ifft(buf) ==
    [k \in DOMAIN buf |->
        Complex32_new(Quot(Cfft(CConj(buf))[k].re, OLA_N),
                      Quot(0 - Cfft(CConj(buf))[k].im, OLA_N))]

\* a SpectralProcessor of the host: halves every bin and adds the
\* sample_index it is given to bin 0
Spectral_process(bins, sample_index) ==
    [k \in DOMAIN bins |->
        Complex32_new(Quot(bins[k].re, 2) + (IF k = 0 THEN 4 * sample_index ELSE 0),
                      Quot(bins[k].im, 2))]

Ola_with ==
    [kind |-> "ola", input_queue |-> << >>,
     output_queue |-> [i \in 1 .. OLA_N |-> 0],
     fft_buffer |-> [i \in 0 .. OLA_N - 1 |-> Complex32_new(0, 0)],
     ola_buffer |-> Vec(OLA_N, 0), hop_size |-> OLA_N \div 2,
     current_sample_index |-> 0]

\* lines 166-175: window, FFT, spectral processing, IFFT
OlaTransform(o) ==
    do_ifft(Spectral_process(
        do_fft([i \in 0 .. OLA_N - 1 |->
                   Complex32_new(Mul(o.input_queue[i + 1], OlaWindow[i]), 0)]),
        o.current_sample_index))

\* lines 177-191: overlap-add, one hop pushed to the output queue, one hop
\* drained from the input queue
OlaFrame_whole_drain(o, fb) ==
    [o EXCEPT !.fft_buffer = fb,
              !.output_queue = @ \o [i \in 1 .. o.hop_size |->
                                        o.ola_buffer[i - 1] + fb[i - 1].re],
              !.ola_buffer = [i \in DOMAIN @ |->
                                 IF i < o.hop_size
                                 THEN @[i + o.hop_size] + fb[i + o.hop_size].re
                                 ELSE 0],
              !.input_queue = SubSeq(@, OLA_N + 1, Len(@)),
              !.current_sample_index = @ + o.hop_size]

OlaFrame(o, fb) ==
    [o EXCEPT !.fft_buffer = fb,
              !.output_queue = @ \o [i \in 1 .. o.hop_size |->
                                        o.ola_buffer[i - 1] + fb[i - 1].re],
              !.ola_buffer = [i \in DOMAIN @ |->
                                 IF i < o.hop_size
                                 THEN @[i + o.hop_size] + fb[i + o.hop_size].re
                                 ELSE 0],
              !.input_queue = SubSeq(@, o.hop_size + 1, Len(@)),
              !.current_sample_index = @ + o.hop_size]

\* line 165: while self.input_queue.len() >= N
RECURSIVE OlaFrames(_)
OlaFrames(o) ==
    IF Len(o.input_queue) >= OLA_N THEN OlaFrames(OlaFrame(o, OlaTransform(o))) ELSE o

\* lines 194-200: pop_front for every sample, 0.0 when the queue is empty
OlaPop(o, n) ==
    [p |-> [o EXCEPT !.output_queue = SubSeq(@, n + 1, Len(@))],
     buf |-> [i \in 1 .. n |-> IF i <= Len(o.output_queue) THEN o.output_queue[i] ELSE 0]]

\* lines 157-163
OlaPush(o, buffer, sample_index) ==
    [o EXCEPT !.current_sample_index = IF o.input_queue = << >> THEN sample_index ELSE @,
              !.input_queue = @ \o buffer]

Ola_process(o, buffer, trace, env) ==
    [p |-> OlaPop(OlaFrames(OlaPush(o, buffer, env.idx)), Len(buffer)).p,
     buf |-> OlaPop(OlaFrames(OlaPush(o, buffer, env.idx)), Len(buffer)).buf,
     trace |-> trace,
     fault |-> "none"]

Ola_reset(o) ==
    [o EXCEPT !.input_queue = << >>,
              !.output_queue = [i \in 1 .. OLA_N |-> 0],
              !.ola_buffer = [i \in DOMAIN @ |-> 0],
              !.current_sample_index = 0]

---------------------------------------------------------------------------
(* The processor contract and the containers: core/frame_processor.rs,     *)
(* core/parallel_mixer.rs, core/dsp_chain.rs, core/static_dsp_chain.rs,    *)
(* core/summing_mixer.rs                                                   *)
(*                                                                         *)
(* A processor is a record tagged by kind. process() takes the block, the  *)
(* run so far (the <<id, sample_index>> of every leaf that has run) and    *)
(* env = [idx |-> sample_index, checked |-> overflow checks on], and gives *)
(* [p |-> the processor after the call, buf, trace, fault].                *)

\* the slack added to the latency for the dry ring (4096 in the source),
\* scaled down so that a block can be longer than it
PM_SLACK == 3

\* a processor of the host's own: delays its input by `latency` samples and
\* maps it to x * gain + offset; keeps the sample rate it was last given
\* (0: none yet) and whether it has run since it was constructed or reset
Leaf_new(id, latency, gain, offset) ==
    [kind |-> "leaf", id |-> id, latency |-> latency, gain |-> gain,
     offset |-> offset, sample_rate |-> 0,
     line |-> [i \in 1 .. latency |-> 0], dirty |-> FALSE]

Leaf_process(p, buffer, trace, env) ==
    [p |-> [p EXCEPT !.line = SubSeq(p.line \o buffer, Len(buffer) + 1,
                                     Len(buffer) + p.latency),
                     !.dirty = TRUE],
     buf |-> [n \in 1 .. Len(buffer) |->
                 Mul((p.line \o buffer)[n], p.gain) + p.offset],
     trace |-> Append(trace, <<p.id, env.idx>>),
     fault |-> "none"]

\* AudioParam::Static(v), and AudioParam::Dynamic of a generator that holds
\* the value v and keeps the sample rate it was last given
AudioParam_Static(v) == [kind |-> "static", value |-> v, sample_rate |-> 0]
AudioParam_Dynamic(v) ==
    [kind |-> "dynamic", value |-> v, step |-> 0, sample_rate |-> 0]

\* AudioParam::Dynamic of a generator whose k-th output of a call is
\* v + k * step
AudioParam_Ramp(v, step) == [AudioParam_Dynamic(v) EXCEPT !.step = step]

\* entry i of the buffer that AudioParam::process fills: the constant of a
\* Static parameter, the sub-graph's i-th output of the call for a Dynamic one
AudioParam_at(a, i) ==
    IF a.kind = "dynamic" THEN a.value + i * a.step ELSE a.value

\* AudioParam::set_sample_rate: forwarded to the embedded sub-graph
AudioParam_set_sample_rate(a, sample_rate) ==
    IF a.kind = "dynamic" THEN [a EXCEPT !.sample_rate = sample_rate] ELSE a

ParallelMixer_new(mix, processor) ==
    [kind |-> "pmix", processor |-> processor, mix |-> AudioParam_Static(mix),
     dry_buffer |-> Vec(0, 0), delay_line |-> Vec(0, 0), write_ptr |-> 0,
     mix_buffer |-> Vec(0, 0)]

ParallelMixer_set_mix(p, mix) == [p EXCEPT !.mix = mix]

SerialProcessor_new(first, second) ==
    [kind |-> "serial", first |-> first, second |-> second]

SummingMixer_new(inputs) ==
    [kind |-> "sum", inputs |-> inputs, gain |-> AudioParam_Static(One),
     soft_clip |-> FALSE, temp_buffer |-> Vec(0, 0), gain_buffer |-> Vec(0, 0)]

RECURSIVE FrameProcessor_latency_samples(_)
RECURSIVE FrameProcessor_set_sample_rate(_, _)
RECURSIVE FrameProcessor_reset(_)
RECURSIVE FrameProcessor_process(_, _, _, _)

RECURSIVE SumSeq(_, _)
SumSeq(f, k) == IF k > Len(f) THEN 0 ELSE f[k] + SumSeq(f, k + 1)

RECURSIVE MaxSeq(_, _)
MaxSeq(f, k) == IF k > Len(f) THEN 0 ELSE Max(f[k], MaxSeq(f, k + 1))

\* latency_samples() of each implementor; a processor that does not define
\* it has the trait's default
FrameProcessor_latency_samples(p) ==
    CASE p.kind = "leaf" -> p.latency
      [] p.kind = "pmix" -> FrameProcessor_latency_samples(p.processor)
      [] p.kind = "serial" -> FrameProcessor_latency_samples(p.first)
                              + FrameProcessor_latency_samples(p.second)
      [] p.kind = "chain" ->
            SumSeq([k \in DOMAIN p.processors |->
                       FrameProcessor_latency_samples(p.processors[k])], 1)
      [] p.kind = "static_chain" -> FrameProcessor_latency_samples(p.processor)
      [] p.kind = "sum" ->
            MaxSeq([k \in DOMAIN p.inputs |->
                       FrameProcessor_latency_samples(p.inputs[k])], 1)
      [] p.kind \in {"mono_to_stereo", "stereo_to_mono"} ->
            FrameProcessor_latency_samples(p.inner)
      [] p.kind = "dual_mono" ->
            Max(FrameProcessor_latency_samples(p.left),
                FrameProcessor_latency_samples(p.right))
      [] OTHER -> 0

\* set_sample_rate() of each implementor
FrameProcessor_set_sample_rate(p, sample_rate) ==
    CASE p.kind = "leaf" -> [p EXCEPT !.sample_rate = sample_rate]
      [] p.kind = "pmix" ->
            [p EXCEPT !.processor = FrameProcessor_set_sample_rate(@, sample_rate),
                      !.mix = AudioParam_set_sample_rate(@, sample_rate)]
      [] p.kind = "serial" ->
            [p EXCEPT !.first = FrameProcessor_set_sample_rate(@, sample_rate),
                      !.second = FrameProcessor_set_sample_rate(@, sample_rate)]
      [] p.kind = "chain" ->
            [p EXCEPT !.sample_rate = sample_rate,
                      !.processors = [k \in DOMAIN @ |->
                          FrameProcessor_set_sample_rate(@[k], sample_rate)]]
      [] p.kind = "static_chain" ->
            [p EXCEPT !.sample_rate = sample_rate,
                      !.processor = FrameProcessor_set_sample_rate(@, sample_rate)]
      [] p.kind = "sum" ->
            [p EXCEPT !.inputs = [k \in DOMAIN @ |->
                          FrameProcessor_set_sample_rate(@[k], sample_rate)],
                      !.gain = AudioParam_set_sample_rate(@, sample_rate)]
      [] p.kind \in {"mono_to_stereo", "stereo_to_mono"} ->
            [p EXCEPT !.inner = FrameProcessor_set_sample_rate(@, sample_rate)]
      [] p.kind = "dual_mono" ->
            [p EXCEPT !.left = FrameProcessor_set_sample_rate(@, sample_rate),
                      !.right = FrameProcessor_set_sample_rate(@, sample_rate)]
      [] OTHER -> p

\* the trait's default reset(): a processor that defines none keeps its state
FrameProcessor_default_reset(p) == p

\* reset() of each implementor; DspChain and ParallelMixer define none and
\* have the trait's default
FrameProcessor_reset(p) ==
    CASE p.kind = "leaf" ->
            [p EXCEPT !.line = [i \in DOMAIN @ |-> 0], !.dirty = FALSE]
      [] p.kind = "serial" ->
            [p EXCEPT !.first = FrameProcessor_reset(@),
                      !.second = FrameProcessor_reset(@)]
      [] p.kind = "static_chain" -> [p EXCEPT !.processor = FrameProcessor_reset(@)]
      [] p.kind = "sum" ->
            [p EXCEPT !.inputs = [k \in DOMAIN @ |-> FrameProcessor_reset(@[k])]]
      [] p.kind = "ola" -> Ola_reset(p)
      [] p.kind \in {"mono_to_stereo", "stereo_to_mono"} ->
            [p EXCEPT !.inner = FrameProcessor_reset(@)]
      [] p.kind = "dual_mono" ->
            [p EXCEPT !.left = FrameProcessor_reset(@),
                      !.right = FrameProcessor_reset(@)]
      [] OTHER -> FrameProcessor_default_reset(p)

\* lines 50-65: size the dry ring, copy the block, sample the mix
ParallelMixerPrepare(p, buffer, latency) ==
    [p EXCEPT !.delay_line = IF latency > 0 THEN GrowTo(@, latency + PM_SLACK) ELSE @,
              !.dry_buffer = [i \in 0 .. Len(buffer) - 1 |-> buffer[i + 1]],
              !.mix_buffer = [i \in 0 .. Len(buffer) - 1 |-> AudioParam_at(p.mix, i)]]

\* lines 67-73: the block written through the ring
RECURSIVE ParallelMixerWrite(_, _, _)
ParallelMixerWrite(p, buffer, i) ==
    IF i > Len(buffer) THEN p
    ELSE ParallelMixerWrite(
            [p EXCEPT !.delay_line[p.write_ptr] = buffer[i],
                      !.write_ptr = (@ + 1) % VecLen(p.delay_line)],
            buffer, i + 1)

\* 2^64 modulo len, for a usize subtraction that wraps
UsizeModulus(len) == (((2 ^ 16) % len) ^ 4) % len

\* line 79: start_read; -1 when the subtraction underflows with overflow
\* checks on, the wrapped value with them off
ParallelMixerStart(p, n, latency, checked) ==
    IF p.write_ptr + VecLen(p.delay_line) - n - latency >= 0
    THEN (p.write_ptr + VecLen(p.delay_line) - n - latency) % VecLen(p.delay_line)
    ELSE IF checked THEN 0 - 1
    ELSE (((p.write_ptr + VecLen(p.delay_line) - n - latency) % VecLen(p.delay_line))
          + UsizeModulus(VecLen(p.delay_line))) % VecLen(p.delay_line)

\* lines 84-86, 98-101 and 106-107: one sample of the mix
ParallelMixerBlend_swapped(dry, wet, wet_gain) ==
    Mul(dry, wet_gain) + Mul(wet, One - wet_gain)

ParallelMixerBlend(dry, wet, wet_gain) ==
    Mul(dry, One - wet_gain) + Mul(wet, wet_gain)

\* lines 77-109: the dry block, delayed when the processor has latency,
\* mixed with the wet block; without latency the 4-sample chunks (95-103)
\* and the remainder (105-108) pair entry i of the dry copy, of the block
\* and of the mix buffer, so every sample is mixed alike
ParallelMixerMix(q, wet, latency, start) ==
    IF wet.fault # "none" \/ start < 0
    THEN [wet EXCEPT !.p = [q EXCEPT !.processor = wet.p],
                     !.fault = IF wet.fault # "none" THEN wet.fault ELSE "underflow"]
    ELSE [wet EXCEPT
            !.p = [q EXCEPT !.processor = wet.p],
            !.buf = [i \in 1 .. Len(wet.buf) |->
                       ParallelMixerBlend(
                           IF latency > 0
                           THEN q.delay_line[(start + i - 1) % VecLen(q.delay_line)]
                           ELSE q.dry_buffer[i - 1],
                           wet.buf[i], q.mix_buffer[i - 1])]]

ParallelMixerRun(q, buffer, trace, env, latency) ==
    ParallelMixerMix(q, FrameProcessor_process(q.processor, buffer, trace, env), latency,
                     IF latency > 0
                     THEN ParallelMixerStart(q, Len(buffer), latency, env.checked)
                     ELSE 0)

ParallelMixer_process(p, buffer, trace, env) ==
    ParallelMixerRun(
        IF FrameProcessor_latency_samples(p.processor) > 0
        THEN ParallelMixerWrite(
                ParallelMixerPrepare(p, buffer, FrameProcessor_latency_samples(p.processor)),
                buffer, 1)
        ELSE ParallelMixerPrepare(p, buffer, 0),
        buffer, trace, env, FrameProcessor_latency_samples(p.processor))

\* line 32: the second processor runs on what the first one left
SerialSecond(p, r1, env) ==
    IF r1.fault # "none" THEN [r1 EXCEPT !.p = [p EXCEPT !.first = r1.p]]
    ELSE LET r2 == FrameProcessor_process(p.second, r1.buf, r1.trace, env)
         IN  [r2 EXCEPT !.p = [p EXCEPT !.first = r1.p, !.second = r2.p]]

\* first and second exchanged
SerialProcessor_process_swapped(p, buffer, trace, env) ==
    LET r2 == FrameProcessor_process(p.second, buffer, trace, env)
        r1 == FrameProcessor_process(p.first, r2.buf, r2.trace, env)
    IN  [r1 EXCEPT !.p = [p EXCEPT !.first = r1.p, !.second = r2.p]]

SerialProcessor_process(p, buffer, trace, env) ==
    SerialSecond(p, FrameProcessor_process(p.first, buffer, trace, env), env)

\* the chain after its k-th processor has run
DspChainPut(c, k, x) == [x EXCEPT !.p = [c EXCEPT !.processors[k] = x.p]]

\* for p in &mut self.processors { p.process(buffer, sample_index) }
RECURSIVE DspChainLoop(_, _, _)
DspChainLoop(r, k, env) ==
    IF k > Len(r.p.processors) \/ r.fault # "none" THEN r
    ELSE DspChainLoop(
            DspChainPut(r.p, k,
                FrameProcessor_process(r.p.processors[k], r.buf, r.trace, env)),
            k + 1, env)

DspChain_process(p, buffer, trace, env) ==
    DspChainLoop([p |-> p, buf |-> buffer, trace |-> trace, fault |-> "none"], 1, env)

StaticDspChainPut(c, x) == [x EXCEPT !.p = [c EXCEPT !.processor = x.p]]

StaticDspChain_process(p, buffer, trace, env) ==
    StaticDspChainPut(p, FrameProcessor_process(p.processor, buffer, trace, env))

\* lines 80-96: one further input run on the scratch slice and added
SumPut(r, k, x) ==
    [p |-> [r.p EXCEPT !.inputs[k] = x.p,
                       !.temp_buffer = [i \in DOMAIN @ |->
                           IF i < Len(x.buf) THEN x.buf[i + 1] ELSE @[i]]],
     buf |-> [i \in 1 .. Len(r.buf) |-> r.buf[i] + x.buf[i]],
     trace |-> x.trace,
     fault |-> x.fault]

RECURSIVE SumLoop(_, _, _)
SumLoop(r, k, env) ==
    IF k > Len(r.p.inputs) \/ r.fault # "none" THEN r
    ELSE SumLoop(SumPut(r, k,
                    FrameProcessor_process(r.p.inputs[k],
                        [i \in 1 .. Len(r.buf) |-> r.p.temp_buffer[i - 1]],
                        r.trace, env)),
                 k + 1, env)

\* lines 70-75: the first input runs on the block itself
SumFirst(p, r0, env) ==
    SumLoop([r0 EXCEPT !.p = [p EXCEPT !.inputs[1] = r0.p,
                                       !.temp_buffer =
                                           IF Len(p.inputs) > 1
                                           THEN GrowTo(@, Len(r0.buf)) ELSE @]],
            2, env)

\* lines 99-127: the output gain, skipped for a constant gain of 1.0
SumGain(r) ==
    IF r.fault # "none" \/ (~r.p.soft_clip /\ r.p.gain.kind = "static" /\ r.p.gain.value = One)
    THEN r
    ELSE [r EXCEPT !.p.gain_buffer = ParamFill(GrowTo(@, Len(r.buf)), Len(r.buf),
                                               r.p.gain.value),
                   !.buf = [i \in 1 .. Len(r.buf) |-> Mul(r.buf[i], r.p.gain.value)]]

SummingMixer_process(p, buffer, trace, env) ==
    IF p.inputs = << >>
    THEN [p |-> p, buf |-> [i \in 1 .. Len(buffer) |-> 0], trace |-> trace,
          fault |-> "none"]
    ELSE SumGain(SumFirst(p, FrameProcessor_process(p.inputs[1], buffer, trace, env), env))

\* process() of each implementor
\* --- effects/utility/passthrough.rs and core/channels.rs ---

Passthrough_new == [kind |-> "passthrough"]

\* Passthrough::process: the buffer is left as it is
Passthrough_process(p, buffer, trace, env) ==
    [p |-> p, buf |-> buffer, trace |-> trace, fault |-> "none"]

\* Gain::new(gain) and Offset::new_param(offset) for `channels` channels
Gain_new(gain) == [kind |-> "gain", gain |-> gain, gain_buffer |-> Vec(0, 0)]

Offset_new(offset, channels) ==
    [kind |-> "offset", offset |-> offset, offset_buffer |-> Vec(0, 0),
     channels |-> channels]

\* the samples that as_chunks_mut::<4>() puts into whole chunks
ChunkedLen(n) == 4 * (n \div 4)

\* the scratch vector of a modulated parameter: grown to n entries and
\* filled by the parameter
ParamScratch(f, a, n) ==
    [i \in DOMAIN GrowTo(f, n) |-> IF i < n THEN AudioParam_at(a, i) ELSE f[i]]

\* gain.rs 45-86: the 4-sample chunks multiplied lane by lane, the
\* remainder sample by sample; a Static gain is splat, any other sampled
\* into gain_buffer
Gain_process_chunks_only(p, buffer, trace, env) ==
    [p |-> IF p.gain.kind = "static" THEN p
           ELSE [p EXCEPT !.gain_buffer = ParamScratch(@, p.gain, Len(buffer))],
     buf |-> [i \in 1 .. Len(buffer) |->
                 IF i <= ChunkedLen(Len(buffer))
                 THEN Mul(buffer[i], AudioParam_at(p.gain, i - 1))
                 ELSE buffer[i]],
     trace |-> trace,
     fault |-> "none"]

Gain_process(p, buffer, trace, env) ==
    [p |-> IF p.gain.kind = "static" THEN p
           ELSE [p EXCEPT !.gain_buffer = ParamScratch(@, p.gain, Len(buffer))],
     buf |-> [i \in 1 .. Len(buffer) |->
                 IF i <= ChunkedLen(Len(buffer))
                 THEN Mul(buffer[i], AudioParam_at(p.gain, i - 1))
                 ELSE IF p.gain.kind = "static"
                 THEN Mul(buffer[i], p.gain.value)
                 ELSE Mul(buffer[i],
                          ParamScratch(p.gain_buffer, p.gain, Len(buffer))[i - 1])],
     trace |-> trace,
     fault |-> "none"]

\* offset.rs 31-76: a Static offset is added to every sample, chunks and
\* remainder; any other is sampled once per frame and added to the samples
\* of the frame, and a sample beyond the last whole frame has no entry
Offset_process(p, buffer, trace, env) ==
    [p |-> IF p.offset.kind = "static" THEN p
           ELSE [p EXCEPT !.offset_buffer =
                    ParamScratch(@, p.offset, Len(buffer) \div p.channels)],
     buf |-> [i \in 1 .. Len(buffer) |->
                 IF p.offset.kind = "static"
                 THEN buffer[i] + p.offset.value
                 ELSE IF (i - 1) \div p.channels < Len(buffer) \div p.channels
                 THEN buffer[i] + AudioParam_at(p.offset, (i - 1) \div p.channels)
                 ELSE buffer[i]],
     trace |-> trace,
     fault |-> IF p.offset.kind # "static" /\ (Len(buffer) % p.channels) # 0
               THEN "frame" ELSE "none"]

DualMono_new(left, right) ==
    [kind |-> "dual_mono", left |-> left, right |-> right,
     left_buffer |-> Vec(0, 0), right_buffer |-> Vec(0, 0)]

\* channels.rs 67-81: the scratch vectors grown to the whole frames and
\* filled with `side` (0 left, 1 right) of every whole frame
DualMonoSplit(scratch, buffer, side) ==
    [i \in DOMAIN GrowTo(scratch, Len(buffer) \div 2) |->
        IF i < Len(buffer) \div 2 THEN buffer[2 * i + 1 + side] ELSE scratch[i]]

\* channels.rs 88-93: the whole frames written back; a trailing lone sample
\* is skipped
DualMonoJoin(p, buffer, l, r) ==
    [p |-> [p EXCEPT !.left = l.p, !.right = r.p,
                     !.left_buffer = [i \in DOMAIN @ |->
                         IF i < Len(l.buf) THEN l.buf[i + 1] ELSE @[i]],
                     !.right_buffer = [i \in DOMAIN @ |->
                         IF i < Len(r.buf) THEN r.buf[i + 1] ELSE @[i]]],
     buf |-> IF l.fault = "none" /\ r.fault = "none"
             THEN [i \in 1 .. Len(buffer) |->
                      IF i > 2 * (Len(buffer) \div 2) THEN buffer[i]
                      ELSE IF i % 2 = 1 THEN l.buf[(i + 1) \div 2]
                      ELSE r.buf[i \div 2]]
             ELSE buffer,
     trace |-> r.trace,
     fault |-> IF l.fault # "none" THEN l.fault ELSE r.fault]

\* channels.rs 83-86: left, then right, each on its scratch slice
DualMonoRight(p, buffer, l, env) ==
    DualMonoJoin(p, buffer, l,
        FrameProcessor_process(p.right,
            [i \in 1 .. Len(buffer) \div 2 |-> p.right_buffer[i - 1]], l.trace, env))

DualMonoRun(p, buffer, trace, env) ==
    DualMonoRight(p, buffer,
        FrameProcessor_process(p.left,
            [i \in 1 .. Len(buffer) \div 2 |-> p.left_buffer[i - 1]], trace, env),
        env)

\* DualMono::process
DualMono_process(p, buffer, trace, env) ==
    DualMonoRun([p EXCEPT !.left_buffer = DualMonoSplit(@, buffer, 0),
                          !.right_buffer = DualMonoSplit(@, buffer, 1)],
                buffer, trace, env)

MonoToStereo_new(inner) == [kind |-> "mono_to_stereo", inner |-> inner]

StereoToMono_new(inner) ==
    [kind |-> "stereo_to_mono", inner |-> inner, stereo_buffer |-> Vec(0, 0)]

\* channels.rs 151-155: from the last frame down, sample i of the buffer is
\* copied to samples 2i and 2i+1 (0-based) of the same buffer
RECURSIVE MonoToStereoSpread(_, _)
MonoToStereoSpread(buffer, i) ==
    IF i < 0 THEN buffer
    ELSE MonoToStereoSpread([buffer EXCEPT ![2 * i + 1] = buffer[i + 1],
                                           ![2 * i + 2] = buffer[i + 1]], i - 1)

\* the inner result as an expansion from the first frame up would leave
\* it: every sample is overwritten by sample 0 before it is read
MonoToStereoAscending(r) == [r EXCEPT !.buf = [i \in DOMAIN r.buf |-> r.buf[1]]]

\* channels.rs 146-155 with the inner processor's result on the first
\* `frames` samples of the buffer
MonoToStereoPut(p, buffer, frames, r) ==
    [p |-> [p EXCEPT !.inner = r.p],
     buf |-> IF r.fault = "none"
             THEN MonoToStereoSpread(
                      r.buf \o SubSeq(buffer, frames + 1, Len(buffer)), frames - 1)
             ELSE buffer,
     trace |-> r.trace,
     fault |-> r.fault]

\* MonoToStereo::process
MonoToStereo_process_ascending(p, buffer, trace, env) ==
    MonoToStereoPut(p, buffer, Len(buffer) \div 2,
        MonoToStereoAscending(
            FrameProcessor_process(p.inner, SubSeq(buffer, 1, Len(buffer) \div 2),
                                   trace, env)))

MonoToStereo_process(p, buffer, trace, env) ==
    MonoToStereoPut(p, buffer, Len(buffer) \div 2,
        FrameProcessor_process(p.inner, SubSeq(buffer, 1, Len(buffer) \div 2),
                               trace, env))

\* channels.rs 202-214: the scratch grown to 2 * frames, each mono sample
\* written twice
StereoToMonoFill(p, buffer) ==
    [i \in DOMAIN GrowTo(p.stereo_buffer, 2 * Len(buffer)) |->
        IF i < 2 * Len(buffer) THEN buffer[(i \div 2) + 1]
        ELSE p.stereo_buffer[i]]

\* channels.rs 216-222 with the inner processor's result on the stereo slice
StereoToMonoPut(p, buffer, scratch, r) ==
    [p |-> [p EXCEPT !.inner = r.p,
                     !.stereo_buffer = [i \in DOMAIN scratch |->
                         IF i < Len(r.buf) THEN r.buf[i + 1] ELSE scratch[i]]],
     buf |-> IF r.fault = "none"
             THEN [i \in 1 .. Len(buffer) |->
                      Mul(r.buf[2 * i - 1] + r.buf[2 * i], Half)]
             ELSE buffer,
     trace |-> r.trace,
     fault |-> r.fault]

\* StereoToMono::process
StereoToMono_process(p, buffer, trace, env) ==
    StereoToMonoPut(p, buffer, StereoToMonoFill(p, buffer),
        FrameProcessor_process(p.inner,
            [i \in 1 .. 2 * Len(buffer) |-> StereoToMonoFill(p, buffer)[i - 1]],
            trace, env))

FrameProcessor_process(p, buffer, trace, env) ==
    CASE p.kind = "leaf" -> Leaf_process(p, buffer, trace, env)
      [] p.kind = "pmix" -> ParallelMixer_process(p, buffer, trace, env)
      [] p.kind = "gain" -> Gain_process(p, buffer, trace, env)
      [] p.kind = "offset" -> Offset_process(p, buffer, trace, env)
      [] p.kind = "serial" -> SerialProcessor_process(p, buffer, trace, env)
      [] p.kind = "chain" -> DspChain_process(p, buffer, trace, env)
      [] p.kind = "static_chain" -> StaticDspChain_process(p, buffer, trace, env)
      [] p.kind = "sum" -> SummingMixer_process(p, buffer, trace, env)
      [] p.kind = "ola" -> Ola_process(p, buffer, trace, env)
      [] p.kind = "passthrough" -> Passthrough_process(p, buffer, trace, env)
      [] p.kind = "mono_to_stereo" -> MonoToStereo_process(p, buffer, trace, env)
      [] p.kind = "stereo_to_mono" -> StereoToMono_process(p, buffer, trace, env)
      [] p.kind = "dual_mono" -> DualMono_process(p, buffer, trace, env)

\* DspChain: new, and, and_mix, and_mix_param
DspChain_new(first, sample_rate) ==
    [kind |-> "chain",
     processors |-> <<FrameProcessor_set_sample_rate(first, sample_rate)>>,
     sample_rate |-> sample_rate]

DspChain_and(c, processor) ==
    [c EXCEPT !.processors =
        Append(@, FrameProcessor_set_sample_rate(processor, c.sample_rate))]

DspChain_and_mix(c, mix, processor) ==
    [c EXCEPT !.processors =
        Append(@, ParallelMixer_new(mix,
                      FrameProcessor_set_sample_rate(processor, c.sample_rate)))]

DspChain_and_mix_param(c, mix, processor) ==
    [c EXCEPT !.processors =
        Append(@, ParallelMixer_set_mix(
                      ParallelMixer_new(0,
                          FrameProcessor_set_sample_rate(processor, c.sample_rate)),
                      mix))]

\* StaticDspChain: new, and, and_mix, and_mix_param
StaticDspChain_new(processor, sample_rate) ==
    [kind |-> "static_chain",
     processor |-> FrameProcessor_set_sample_rate(processor, sample_rate),
     sample_rate |-> sample_rate]

\* StaticDspChain::to_stereo / to_mono
StaticDspChain_to_stereo(c) ==
    StaticDspChain_new(MonoToStereo_new(c.processor), c.sample_rate)

StaticDspChain_to_mono(c) ==
    StaticDspChain_new(StereoToMono_new(c.processor), c.sample_rate)

StaticDspChain_and(c, next) ==
    [c EXCEPT !.processor =
        SerialProcessor_new(@, FrameProcessor_set_sample_rate(next, c.sample_rate))]

StaticDspChain_and_mix(c, mix, next) ==
    [c EXCEPT !.processor =
        SerialProcessor_new(@,
            ParallelMixer_new(mix, FrameProcessor_set_sample_rate(next, c.sample_rate)))]

StaticDspChain_and_mix_param(c, mix, next) ==
    [c EXCEPT !.processor =
        SerialProcessor_new(@,
            ParallelMixer_set_mix(
                ParallelMixer_new(0, FrameProcessor_set_sample_rate(next, c.sample_rate)),
                mix))]

---------------------------------------------------------------------------
(* A ParallelMixer around a processor with latency *)

\* the latency the wrapped processor reports
LeafLatency == 2

Mixer_new ==
    [mixer |-> ParallelMixer_new(Half, Leaf_new(1, LeafLatency, One, 0)),
     fault |-> "none",
     total |-> 0]

\* the input of a run: frame n carries the value n
Ramp(from, n) == [i \in 1 .. n |-> (from + i) * One]

\* the dry signal the mixer owes for outputs from+1 .. from+n: the input
\* `latency` frames earlier, silence before the first frame
DryOwed(from, n, latency) ==
    [i \in 1 .. n |-> IF from + i - latency >= 1 THEN (from + i - latency) * One ELSE 0]

MixerStep(res, n) ==
    /\ pm' = [pm EXCEPT !.mixer = res.p, !.fault = res.fault,
                        !.total = @ + n]
    /\ obs' = [op |-> "process", n |-> n, out |-> res.buf,
               owed |-> DryOwed(pm.total, n, LeafLatency)]

\* a host call of process() on the next n frames of the ramp
MixerProcess ==
    /\ sel = "pmix"
    /\ pm.fault = "none"
    /\ \E n \in 0 .. MaxBlock, checked \in BOOLEAN :
          /\ pm.total + n <= MaxTotal
          /\ MixerStep(FrameProcessor_process(pm.mixer, Ramp(pm.total, n), << >>,
                           [idx |-> pm.total, checked |-> checked]), n)
    /\ Keep_pm

\* ParallelMixer::set_mix with a Static parameter
MixerSetMix ==
    /\ sel = "pmix"
    /\ pm.fault = "none"
    /\ \E mix \in {0, Half, One} :
          /\ pm' = [pm EXCEPT !.mixer = ParallelMixer_set_mix(@, AudioParam_Static(mix))]
          /\ obs' = [op |-> "set_mix"]
    /\ Keep_pm

MixerNext == MixerProcess \/ MixerSetMix

\* --- a ParallelMixer around a processor without latency ---

\* the wrapped processor: out = 2 * in + 1, no latency
BlendLeaf == Leaf_new(1, 0, 2 * One, One)

\* ParallelMixer::new followed by set_mix with a Static parameter or with a
\* Dynamic one whose value rises through the block
BlendInits ==
    {[mixer |-> ParallelMixer_set_mix(ParallelMixer_new(0, BlendLeaf), mix),
      fault |-> "none", total |-> 0] :
        mix \in {AudioParam_Static(0), AudioParam_Static(Half), AudioParam_Static(One),
                 AudioParam_Ramp(0, Fx(1, 8))}}

BlendStep(res, wet, buffer) ==
    /\ pm' = [pm EXCEPT !.mixer = res.p, !.fault = res.fault,
                        !.total = @ + Len(buffer)]
    /\ obs' = [op |-> "process", n |-> Len(buffer), in |-> buffer,
               wet |-> wet.buf, out |-> res.buf]

\* process() on a block, mono or interleaved stereo, whose sample i carries
\* the value from + i
BlendProcess ==
    /\ sel = "blend"
    /\ pm.fault = "none"
    /\ \E n \in 0 .. MaxBlock, from \in 0 .. 2 :
          /\ pm.total + n <= MaxTotal
          /\ BlendStep(FrameProcessor_process(pm.mixer, Ramp(from, n), << >>,
                           [idx |-> pm.total, checked |-> TRUE]),
                       FrameProcessor_process(pm.mixer.processor, Ramp(from, n), << >>,
                           [idx |-> pm.total, checked |-> TRUE]),
                       Ramp(from, n))
    /\ Keep_pm

---------------------------------------------------------------------------
(* Host calls on an Ola *)

OlaStep(res, fresh, n) ==
    /\ ola' = [ola EXCEPT !.p = res.p, !.total = @ + n, !.calls = @ + 1]
    /\ obs' = ResetObs(n, res.buf, fresh.buf)

OlaProcess ==
    /\ sel = "ola"
    /\ ola.calls < MaxCalls
    /\ \E n \in 0 .. MaxBlock, v \in SampleVals :
          OlaStep(FrameProcessor_process(ola.p, Block(n, v), << >>,
                      [idx |-> ola.total, checked |-> TRUE]),
                  FrameProcessor_process(Ola_with, Block(n, v), << >>,
                      [idx |-> ola.total, checked |-> TRUE]),
                  n)
    /\ Keep_ola

OlaReset ==
    /\ sel = "ola"
    /\ ola' = [ola EXCEPT !.p = FrameProcessor_reset(@)]
    /\ obs' = [op |-> "reset"]
    /\ Keep_ola

OlaNext == OlaProcess \/ OlaReset

---------------------------------------------------------------------------
(* Adsr and Trigger: synthesis/envelope.rs *)

\* libm::expf on arguments x <= 0, sampled on a grid of quarters: the floor
\* of e^(-k/4) on the sample grid for -x in [k/4, (k+1)/4)
ExpfTable ==
    <<1024, 797, 621, 483, 376, 293, 228, 177, 138, 107, 84, 65, 50, 39, 30,
      24, 18, 14, 11, 8, 6, 5, 4, 3, 2, 1, 1, 1>>

Expf(x) ==
    IF (4 * (0 - x)) \div One >= Len(ExpfTable) THEN 0
    ELSE ExpfTable[(4 * (0 - x)) \div One + 1]

\* lines 109-113
AdsrRecalcAttack(a, attack) ==
    IF attack # a.last_attack
    THEN [a EXCEPT !.attack_step = IF attack * a.sample_rate > 0
                                   THEN (One * One) \div (attack * a.sample_rate)
                                   ELSE One,
                   !.last_attack = attack]
    ELSE a

\* lines 117-120 and 126-129: expf(-1.0 / (samples / 3.0))
AdsrCoeff_unity(time, sample_rate) ==
    IF time * sample_rate > 0 THEN One ELSE 0

AdsrCoeff(time, sample_rate) ==
    IF time * sample_rate > 0
    THEN Expf(0 - ((3 * One * One) \div (time * sample_rate)))
    ELSE 0

\* lines 115-131
AdsrRecalcRest(a, decay, release) ==
    [a EXCEPT !.decay_coeff = IF decay # a.last_decay
                              THEN AdsrCoeff(decay, a.sample_rate) ELSE @,
              !.last_decay = decay,
              !.release_coeff = IF release # a.last_release
                                THEN AdsrCoeff(release, a.sample_rate) ELSE @,
              !.last_release = release]

Adsr_recalc(a, attack, decay, release) ==
    AdsrRecalcRest(AdsrRecalcAttack(a, attack), decay, release)

\* Adsr::new with Static times; retrigger is the AtomicBool shared with
\* every Trigger handle
Adsr_new(attack_time, decay_time, sustain_level, release_time) ==
    Adsr_recalc(
        [attack_time |-> attack_time, decay_time |-> decay_time,
         sustain_level |-> sustain_level, release_time |-> release_time,
         sample_rate |-> SampleRate, state |-> "Idle", current_level |-> 0,
         last_gate |-> 0, attack_step |-> 0, decay_coeff |-> 0,
         release_coeff |-> 0, last_attack |-> 0 - One, last_decay |-> 0 - One,
         last_release |-> 0 - One, gate_buffer |-> Vec(0, 0),
         attack_buffer |-> Vec(0, 0), decay_buffer |-> Vec(0, 0),
         sustain_buffer |-> Vec(0, 0), release_buffer |-> Vec(0, 0),
         retrigger |-> FALSE],
        Fx(1, 100), Fx(1, 10), Fx(1, 10))

\* Trigger::fire
Trigger_fire(a) == [a EXCEPT !.retrigger = TRUE]

\* lines 182-191: retrigger, gate edges, last_gate
AdsrEdge_zeroing(a, gate_val, triggered) ==
    [a EXCEPT !.state = IF triggered THEN "Attack"
                        ELSE IF gate_val >= Half /\ a.last_gate < Half THEN "Attack"
                        ELSE IF gate_val < Half /\ a.last_gate >= Half THEN "Release"
                        ELSE @,
              !.current_level = IF triggered \/ (gate_val >= Half /\ a.last_gate < Half)
                                THEN 0 ELSE @,
              !.last_gate = gate_val]

AdsrEdge(a, gate_val, triggered) ==
    [a EXCEPT !.state = IF triggered THEN "Attack"
                        ELSE IF gate_val >= Half /\ a.last_gate < Half THEN "Attack"
                        ELSE IF gate_val < Half /\ a.last_gate >= Half THEN "Release"
                        ELSE @,
              !.current_level = IF triggered THEN 0 ELSE @,
              !.last_gate = gate_val]

\* |x| < 0.001 on the sample grid
AdsrNear(x) == x \in {0 - 1, 0, 1}

\* lines 193-221: one sample of the state machine
AdsrAdvance_gated_sustain(a, sustain) ==
    CASE a.state = "Idle" -> [a EXCEPT !.current_level = 0]
      [] a.state = "Attack" ->
            IF a.current_level + a.attack_step >= One
            THEN [a EXCEPT !.current_level = One, !.state = "Decay"]
            ELSE [a EXCEPT !.current_level = @ + a.attack_step]
      [] a.state = "Decay" ->
            IF AdsrNear(Mul(a.current_level - sustain, a.decay_coeff))
            THEN [a EXCEPT !.current_level = sustain, !.state = "Sustain"]
            ELSE [a EXCEPT !.current_level =
                               sustain + Mul(a.current_level - sustain, a.decay_coeff)]
      [] a.state = "Sustain" ->
            IF a.last_gate < Half
            THEN [a EXCEPT !.current_level = sustain, !.state = "Release"]
            ELSE [a EXCEPT !.current_level = sustain]
      [] a.state = "Release" ->
            IF Mul(a.current_level, a.release_coeff) < 1
            THEN [a EXCEPT !.current_level = 0, !.state = "Idle"]
            ELSE [a EXCEPT !.current_level = Mul(a.current_level, a.release_coeff)]

AdsrAdvance(a, sustain) ==
    CASE a.state = "Idle" -> [a EXCEPT !.current_level = 0]
      [] a.state = "Attack" ->
            IF a.current_level + a.attack_step >= One
            THEN [a EXCEPT !.current_level = One, !.state = "Decay"]
            ELSE [a EXCEPT !.current_level = @ + a.attack_step]
      [] a.state = "Decay" ->
            IF AdsrNear(Mul(a.current_level - sustain, a.decay_coeff))
            THEN [a EXCEPT !.current_level = sustain, !.state = "Sustain"]
            ELSE [a EXCEPT !.current_level =
                               sustain + Mul(a.current_level - sustain, a.decay_coeff)]
      [] a.state = "Sustain" -> [a EXCEPT !.current_level = sustain]
      [] a.state = "Release" ->
            IF Mul(a.current_level, a.release_coeff) < 1
            THEN [a EXCEPT !.current_level = 0, !.state = "Idle"]
            ELSE [a EXCEPT !.current_level = Mul(a.current_level, a.release_coeff)]

\* lines 173-224: the sample loop; triggered holds for the first sample only
RECURSIVE AdsrLoop(_, _, _, _)
AdsrLoop(a, out, n, triggered) ==
    IF Len(out) = n THEN [a |-> a, buf |-> out]
    ELSE AdsrLoop(
            AdsrAdvance(
                AdsrEdge(Adsr_recalc(a, a.attack_buffer[Len(out)],
                                     a.decay_buffer[Len(out)],
                                     a.release_buffer[Len(out)]),
                         a.gate_buffer[Len(out)], triggered),
                a.sustain_buffer[Len(out)]),
            Append(out,
                AdsrAdvance(
                    AdsrEdge(Adsr_recalc(a, a.attack_buffer[Len(out)],
                                         a.decay_buffer[Len(out)],
                                         a.release_buffer[Len(out)]),
                             a.gate_buffer[Len(out)], triggered),
                    a.sustain_buffer[Len(out)]).current_level),
            n, FALSE)

\* lines 148-164: the scratch vectors sized, zeroed and filled from the
\* parameters; gates is the block the gate parameter produces
AdsrScratch(a, gates) ==
    [a EXCEPT
        !.gate_buffer = [i \in DOMAIN GrowTo(@, Len(gates)) |->
                            IF i < Len(gates) THEN gates[i + 1] ELSE 0],
        !.attack_buffer = ParamFill(Vec(VecLen(GrowTo(@, Len(gates))), 0), Len(gates),
                                    a.attack_time),
        !.decay_buffer = ParamFill(Vec(VecLen(GrowTo(@, Len(gates))), 0), Len(gates),
                                   a.decay_time),
        !.sustain_buffer = ParamFill(Vec(VecLen(GrowTo(@, Len(gates))), 0), Len(gates),
                                     a.sustain_level),
        !.release_buffer = ParamFill(Vec(VecLen(GrowTo(@, Len(gates))), 0), Len(gates),
                                     a.release_time)]

\* the gate over a block of n samples: g on its first k samples, the
\* opposite level after them
GateBlock(n, k, g) == [i \in 1 .. n |-> IF i <= k THEN g ELSE One - g]

\* The audio thread's process() call, in the steps that the control
\* thread's fire() can interleave with: the scratch set-up and the load of
\* the flag (lines 146-168), the store that clears it (169-170), the sample
\* loop (173-224). audio.pending: some fire() has not been answered by a
\* retrigger in a call that began after it; audio.due: that held when the
\* call in progress began.
AdsrBegin ==
    /\ sel = "adsr"
    /\ audio.pc = "idle"
    /\ audio.calls < MaxCalls
    /\ \E n \in 0 .. MaxBlock, k \in 0 .. 1, g \in {0, One} :
          /\ adsr' = AdsrScratch(adsr, GateBlock(n, k, g))
          /\ audio' = [audio EXCEPT !.pc = IF adsr.retrigger THEN "loaded" ELSE "loop",
                                !.n = n, !.triggered = FALSE,
                                !.due = audio.pending, !.calls = @ + 1]
    /\ obs' = [op |-> "begin"]
    /\ Keep_adsr

AdsrClear ==
    /\ sel = "adsr"
    /\ audio.pc = "loaded"
    /\ adsr' = [adsr EXCEPT !.retrigger = FALSE]
    /\ audio' = [audio EXCEPT !.pc = "loop", !.triggered = TRUE]
    /\ obs' = [op |-> "clear"]
    /\ Keep_adsr

\* the retrigger happens on the first sample of a block that has one
AdsrRun ==
    /\ sel = "adsr"
    /\ audio.pc = "loop"
    /\ adsr' = AdsrLoop(adsr, << >>, audio.n, audio.triggered).a
    /\ audio' = [audio EXCEPT !.pc = "idle",
                          !.pending = IF audio.triggered /\ audio.n > 0 /\ audio.due
                                      THEN audio.late ELSE audio.pending,
                          !.late = FALSE]
    /\ obs' = [op |-> "process", n |-> audio.n,
               out |-> AdsrLoop(adsr, << >>, audio.n, audio.triggered).buf,
               retriggered |-> audio.triggered /\ audio.n > 0,
               fired |-> audio.fired]
    /\ Keep_adsr

\* a control thread's Trigger::fire(), at any moment
TriggerFire ==
    /\ sel = "adsr"
    /\ adsr' = Trigger_fire(adsr)
    /\ audio' = [audio EXCEPT !.pending = TRUE, !.fired = TRUE,
                          !.late = audio.pc # "idle"]
    /\ obs' = [op |-> "fire"]
    /\ Keep_adsr

AdsrNext == AdsrBegin \/ AdsrClear \/ AdsrRun \/ TriggerFire

\* --- the sample loop of Adsr::process, one sample at a time ---

\* gate levels around the 0.5 threshold: a pair is the level of the first
\* k samples of a block and the level of the rest
GatePairs == {<<0, One>>, <<One, 0>>, <<Half - 1, Half>>, <<Half, Half - 1>>}

GateSplit(n, k, pair) == [i \in 1 .. n |-> IF i <= k THEN pair[1] ELSE pair[2]]

\* the gate value of the last sample the envelope was fed, 0 before the first
GateFed == IF obs.op = "none" THEN 0 ELSE obs.gate

\* lines 146-171 on a single thread: the scratch set-up, and the flag
\* loaded and cleared
AdsrGateBegin ==
    /\ sel = "adsr_gate"
    /\ audio.pc = "idle"
    /\ audio.calls < MaxCalls
    /\ \E n \in 0 .. MaxBlock \div 2, k \in 0 .. 1, pair \in GatePairs :
          /\ adsr' = [AdsrScratch(adsr, GateSplit(n, k, pair)) EXCEPT !.retrigger = FALSE]
          /\ audio' = [audio EXCEPT !.pc = IF n = 0 THEN "idle" ELSE "loop",
                                !.n = n, !.triggered = adsr.retrigger,
                                !.calls = @ + 1]
    /\ obs' = [op |-> "begin", i |-> 0, gate |-> GateFed]
    /\ Keep_adsr

\* lines 173-224: one pass of the loop body, on sample obs.i of the block
AdsrGateSample ==
    /\ sel = "adsr_gate"
    /\ audio.pc = "loop"
    /\ adsr' = AdsrAdvance(
                   AdsrEdge(Adsr_recalc(adsr, adsr.attack_buffer[obs.i],
                                        adsr.decay_buffer[obs.i],
                                        adsr.release_buffer[obs.i]),
                            adsr.gate_buffer[obs.i], audio.triggered),
                   adsr.sustain_buffer[obs.i])
    /\ audio' = [audio EXCEPT !.pc = IF obs.i + 1 = audio.n THEN "idle" ELSE "loop",
                          !.triggered = FALSE]
    /\ obs' = [op |-> "sample", i |-> obs.i + 1, gate |-> adsr.gate_buffer[obs.i]]
    /\ Keep_adsr

\* Trigger::fire() between two process() calls
AdsrGateFire ==
    /\ sel = "adsr_gate"
    /\ audio.pc = "idle"
    /\ ~adsr.retrigger
    /\ adsr' = Trigger_fire(adsr)
    /\ obs' = [op |-> "fire", i |-> 0, gate |-> GateFed]
    /\ UNCHANGED audio
    /\ Keep_adsr

AdsrGateNext == AdsrGateBegin \/ AdsrGateSample \/ AdsrGateFire

---------------------------------------------------------------------------
(* A DspChain and a StaticDspChain built by the same calls *)

\* most processors appended to a chain after the first
MaxParts == 2

\* sample rates a host gives a chain
ChainRates == {44100, 48000}

\* processors a host appends: two of its own, with different latencies and
\* transfer functions, and a SummingMixer of two more
Parts ==
    {Leaf_new(1, 0, 2 * One, 0), Leaf_new(2, 1, One, One),
     SummingMixer_new(<<Leaf_new(3, 0, One, One), Leaf_new(4, 1, Half, 0)>>)}

\* the ids of the host processors inside p, in the order they run
RECURSIVE LeafIds(_)
LeafIds(p) ==
    IF p.kind = "leaf" THEN <<p.id>>
    ELSE IF p.kind = "sum" THEN LeafIds(p.inputs[1]) \o LeafIds(p.inputs[2])
    ELSE << >>

\* dyn and sta are built in step; ids and latency are what the calls so far
\* appended
Chain_new(first, sample_rate) ==
    [dyn |-> DspChain_new(first, sample_rate),
     sta |-> StaticDspChain_new(first, sample_rate),
     ids |-> LeafIds(first),
     latency |-> FrameProcessor_latency_samples(first),
     plain |-> TRUE, fault |-> "none", total |-> 0, calls |-> 0]

ChainAnd ==
    /\ sel = "chain"
    /\ Len(ch.dyn.processors) <= MaxParts
    /\ \E part \in Parts :
          ch' = [ch EXCEPT !.dyn = DspChain_and(@, part),
                           !.sta = StaticDspChain_and(@, part),
                           !.ids = @ \o LeafIds(part),
                           !.latency = @ + FrameProcessor_latency_samples(part)]
    /\ obs' = [op |-> "and"]
    /\ Keep_ch

ChainAndMix ==
    /\ sel = "chain"
    /\ Len(ch.dyn.processors) <= MaxParts
    /\ \E part \in Parts :
          ch' = [ch EXCEPT !.dyn = DspChain_and_mix(@, Half, part),
                           !.sta = StaticDspChain_and_mix(@, Half, part),
                           !.ids = @ \o LeafIds(part),
                           !.latency = @ + FrameProcessor_latency_samples(part),
                           !.plain = FALSE]
    /\ obs' = [op |-> "and_mix"]
    /\ Keep_ch

ChainAndMixParam ==
    /\ sel = "chain"
    /\ Len(ch.dyn.processors) <= MaxParts
    /\ \E part \in Parts, mix \in {AudioParam_Static(Half), AudioParam_Dynamic(Half)} :
          ch' = [ch EXCEPT !.dyn = DspChain_and_mix_param(@, mix, part),
                           !.sta = StaticDspChain_and_mix_param(@, mix, part),
                           !.ids = @ \o LeafIds(part),
                           !.latency = @ + FrameProcessor_latency_samples(part),
                           !.plain = FALSE]
    /\ obs' = [op |-> "and_mix_param"]
    /\ Keep_ch

ChainSetSampleRate ==
    /\ sel = "chain"
    /\ \E sample_rate \in ChainRates :
          ch' = [ch EXCEPT !.dyn = FrameProcessor_set_sample_rate(@, sample_rate),
                           !.sta = FrameProcessor_set_sample_rate(@, sample_rate)]
    /\ obs' = [op |-> "set_sample_rate"]
    /\ Keep_ch

\* the children of a StaticDspChain's nest of SerialProcessors, first to last
RECURSIVE SerialChildren(_)
SerialChildren(p) ==
    IF p.kind = "serial" THEN Append(SerialChildren(p.first), p.second) ELSE <<p>>

ChainStep(d, s, n) ==
    /\ ch' = [ch EXCEPT !.dyn = d.p, !.sta = s.p,
                        !.fault = IF d.fault # "none" THEN d.fault ELSE s.fault,
                        !.total = @ + n, !.calls = @ + 1]
    /\ obs' = [op |-> "process", n |-> n, idx |-> ch.total,
               input |-> Ramp(ch.total, n),
               dyn_before |-> ch.dyn.processors,
               sta_before |-> SerialChildren(ch.sta.processor),
               dyn_out |-> d.buf, sta_out |-> s.buf,
               dyn_trace |-> d.trace, sta_trace |-> s.trace]

\* the same block handed to both chains
ChainProcess ==
    /\ sel = "chain"
    /\ ch.fault = "none"
    /\ ch.calls < MaxCalls
    /\ \E n \in 0 .. PM_SLACK :
          ChainStep(FrameProcessor_process(ch.dyn, Ramp(ch.total, n), << >>,
                        [idx |-> ch.total, checked |-> TRUE]),
                    FrameProcessor_process(ch.sta, Ramp(ch.total, n), << >>,
                        [idx |-> ch.total, checked |-> TRUE]),
                    n)
    /\ Keep_ch

\* reset() on both roots
ChainReset ==
    /\ sel = "chain"
    /\ ch.fault = "none"
    /\ ch' = [ch EXCEPT !.dyn = FrameProcessor_reset(@),
                        !.sta = FrameProcessor_reset(@)]
    /\ obs' = [op |-> "reset"]
    /\ Keep_ch

ChainNext ==
    \/ ChainAnd
    \/ ChainAndMix
    \/ ChainAndMixParam
    \/ ChainSetSampleRate
    \/ ChainProcess
    \/ ChainReset

---------------------------------------------------------------------------
(* Channel converters around the identity processor *)

\* StereoToMono(MonoToStereo(Passthrough)), bare and as built by
\* StaticDspChain::new(Passthrough).to_stereo().to_mono()
ConvertInits ==
    {[p |-> StereoToMono_new(MonoToStereo_new(Passthrough_new)), calls |-> 0],
     [p |-> StaticDspChain_to_mono(StaticDspChain_to_stereo(
                StaticDspChain_new(Passthrough_new, 44100))),
      calls |-> 0]}

ConvertStep(res, buffer) ==
    /\ cv' = [p |-> res.p, calls |-> cv.calls + 1]
    /\ obs' = [op |-> "process", n |-> Len(buffer), in |-> buffer,
               out |-> res.buf, fault |-> res.fault]

\* process() on a mono block whose sample i carries the value from + i
ConvertProcess ==
    /\ sel = "convert"
    /\ cv.calls < MaxCalls
    /\ \E n \in 0 .. MaxBlock, from \in 0 .. 2 :
          ConvertStep(FrameProcessor_process(cv.p, Ramp(from, n), <<>>,
                                             [idx |-> 0, checked |-> TRUE]),
                      Ramp(from, n))
    /\ Keep_cv

---------------------------------------------------------------------------
(* Stereo processors on buffers of odd and even length *)

\* the whole frames of a buffer
WholeFrames(buffer) == SubSeq(buffer, 1, 2 * (Len(buffer) \div 2))

\* what a call on `buffer` left, beside what the same call on the whole
\* frames of `buffer` leaves: `same` says that the two leave the processor
\* in the same state
StereoObs(buffer, fault, out, whole_out, same) ==
    [op |-> "process", n |-> Len(buffer), in |-> buffer, fault |-> fault,
     out |-> out, whole_out |-> whole_out, same |-> same]

StereoReverbStep(buffer, res, whole) ==
    /\ rv' = res.st
    /\ obs' = StereoObs(buffer, res.st.fault, res.buf, whole.buf, res.st = whole.st)

StereoReverbProcess ==
    /\ sel = "stereo_reverb"
    /\ rv.fault = "none"
    /\ \E n \in 0 .. MaxBlock, from \in 0 .. 1 :
          /\ rv.total + n \div 2 <= MaxTotal
          /\ StereoReverbStep(Ramp(from, n), Reverb_process(rv, Ramp(from, n)),
                              Reverb_process(rv, WholeFrames(Ramp(from, n))))
    /\ Keep_rv

StereoPingPongStep(buffer, res, whole) ==
    /\ pp' = [res.d EXCEPT !.calls = @ + 1]
    /\ obs' = StereoObs(buffer, res.d.fault, res.buf, whole.buf, res.d = whole.d)

StereoPingPongProcess ==
    /\ sel = "stereo_pingpong"
    /\ pp.fault = "none"
    /\ pp.calls < MaxCalls
    /\ \E n \in 0 .. MaxBlock, from \in 0 .. 1 :
          StereoPingPongStep(Ramp(from, n), PingPongDelay_process(pp, Ramp(from, n)),
                             PingPongDelay_process(pp, WholeFrames(Ramp(from, n))))
    /\ Keep_pp

StereoLowMemStep(buffer, res, whole) ==
    /\ rlm' = [res.r EXCEPT !.calls = @ + 1]
    /\ obs' = StereoObs(buffer, res.r.fault, res.buf, whole.buf, res.r = whole.r)

StereoLowMemProcess ==
    /\ sel = "stereo_lowmem"
    /\ rlm.fault = "none"
    /\ rlm.calls < MaxCalls
    /\ \E n \in 0 .. MaxBlock, from \in 0 .. 1 :
          StereoLowMemStep(Ramp(from, n), ReverbLowMem_process(rlm, Ramp(from, n)),
                           ReverbLowMem_process(rlm, WholeFrames(Ramp(from, n))))
    /\ Keep_rlm

\* a DualMono of two processors that hold history: x -> 2x delayed by one
\* sample on the left, x -> x + 1 on the right
DualMonoInits ==
    {[p |-> DualMono_new(Leaf_new(1, 1, 2 * One, 0), Leaf_new(2, 0, One, One)),
      calls |-> 0]}

StereoDualMonoStep(buffer, res, whole) ==
    /\ cv' = [p |-> res.p, calls |-> cv.calls + 1]
    /\ obs' = StereoObs(buffer, res.fault, res.buf, whole.buf, res.p = whole.p)

StereoDualMonoProcess ==
    /\ sel = "stereo_dual"
    /\ cv.calls < MaxCalls
    /\ \E n \in 0 .. MaxBlock, from \in 0 .. 1 :
          StereoDualMonoStep(Ramp(from, n),
              FrameProcessor_process(cv.p, Ramp(from, n), << >>,
                                     [idx |-> 0, checked |-> TRUE]),
              FrameProcessor_process(cv.p, WholeFrames(Ramp(from, n)), << >>,
                                     [idx |-> 0, checked |-> TRUE]))
    /\ Keep_cv

StereoNext ==
    \/ StereoReverbProcess
    \/ StereoPingPongProcess
    \/ StereoLowMemProcess
    \/ StereoDualMonoProcess

---------------------------------------------------------------------------
(* Parameter: core/parameter.rs *)

\* floor(log2(n)) for n >= 1
RECURSIVE Log2(_)
Log2(n) == IF n < 2 THEN 0 ELSE 1 + Log2(n \div 2)

\* f32::to_bits of a value of the sample grid, as the two 16-bit halves of
\* the IEEE-754 pattern: sign, exponent biased by 127, 23 mantissa bits
F32_to_bits(x) ==
    IF x = 0 THEN [hi |-> 0, lo |-> 0]
    ELSE LET n == IF x < 0 THEN 0 - x ELSE x
             mant == (n - 2 ^ Log2(n)) * 2 ^ (23 - Log2(n))
         IN [hi |-> (IF x < 0 THEN 32768 ELSE 0)
                    + (127 + Log2(n) - FracBits) * 128 + (mant \div 65536),
             lo |-> mant % 65536]

\* f32::from_bits, back on the sample grid
F32_from_bits(b) ==
    IF b.hi % 32768 = 0 /\ b.lo = 0 THEN 0
    ELSE LET e == ((b.hi % 32768) \div 128) - 127 + FracBits
             frac == 2 ^ 23 + (b.hi % 128) * 65536 + b.lo
             n == IF e >= 23 THEN frac * 2 ^ (e - 23) ELSE frac \div 2 ^ (23 - e)
         IN IF b.hi >= 32768 THEN 0 - n ELSE n

\* AtomicU32::store and AtomicU32::load with Ordering::Relaxed: one
\* indivisible access to the 32 bits of the cell
AtomicU32_store_torn(cell, bits) == [hi |-> bits.hi, lo |-> cell.lo]

AtomicU32_store(cell, bits) == bits

AtomicU32_load(cell) == cell

\* the heap of Arc<AtomicU32> cells: Parameter::new allocates one, the
\* derived Clone copies the Arc, which points to the same cell
Parameter_new(cells, value) ==
    [cells |-> Append(cells, F32_to_bits(value)), p |-> [value |-> Len(cells) + 1]]

Parameter_clone(p) == p

\* Parameter::set and Parameter::get at their atomic access
Parameter_set(cells, p, value) ==
    [cells EXCEPT ![p.value] = AtomicU32_store(@, F32_to_bits(value))]

Parameter_get(cells, p) == F32_from_bits(AtomicU32_load(cells[p.value]))

Threads == {"control", "audio"}

\* the value the Parameter is created with, and the values the threads set:
\* their bit patterns differ in both halves
ParamInitial == Fx(1, 4)
ParamValues == {Half + 1, One + 2}

\* Parameter::new on the control thread and a clone handed to the audio thread
Parameter_shared ==
    [cells |-> Parameter_new(<< >>, ParamInitial).cells,
     handle |-> [t \in Threads |->
                    IF t = "control" THEN Parameter_new(<< >>, ParamInitial).p
                    ELSE Parameter_clone(Parameter_new(<< >>, ParamInitial).p)],
     pc |-> [t \in Threads |-> "idle"],
     arg |-> [t \in Threads |-> 0],
     ret |-> [t \in Threads |-> 0],
     clean |-> [t \in Threads |-> FALSE],
     calls |-> [t \in Threads |-> 0],
     started |-> {ParamInitial},
     last |-> ParamInitial]

\* a thread calls set(v) on its clone; a get() in progress is no longer one
\* that runs after the sets have stopped
ParameterSetCall ==
    /\ sel = "param"
    /\ \E t \in Threads, v \in ParamValues :
          /\ par.pc[t] = "idle"
          /\ par.calls[t] < MaxCalls
          /\ par' = [par EXCEPT !.pc[t] = "store", !.arg[t] = v,
                                !.calls[t] = @ + 1,
                                !.started = @ \cup {v},
                                !.clean = [u \in Threads |-> FALSE]]
          /\ obs' = [op |-> "set_call", t |-> t]
    /\ Keep_par

\* line 22: the store
ParameterStore ==
    /\ sel = "param"
    /\ \E t \in Threads :
          /\ par.pc[t] = "store"
          /\ par' = [par EXCEPT !.cells = Parameter_set(@, par.handle[t], par.arg[t]),
                                !.pc[t] = "set_return",
                                !.last = par.arg[t]]
          /\ obs' = [op |-> "store", t |-> t]
    /\ Keep_par

ParameterSetReturn ==
    /\ sel = "param"
    /\ \E t \in Threads :
          /\ par.pc[t] = "set_return"
          /\ par' = [par EXCEPT !.pc[t] = "idle"]
          /\ obs' = [op |-> "set", t |-> t]
    /\ Keep_par

\* a thread calls get() on its clone; the call runs after the sets have
\* stopped when no set() is in progress
ParameterGetCall ==
    /\ sel = "param"
    /\ \E t \in Threads :
          /\ par.pc[t] = "idle"
          /\ par.calls[t] < MaxCalls
          /\ par' = [par EXCEPT !.pc[t] = "load", !.calls[t] = @ + 1,
                                !.clean[t] = \A u \in Threads : par.pc[u] = "idle"]
          /\ obs' = [op |-> "get_call", t |-> t]
    /\ Keep_par

\* line 27: the load
ParameterLoad ==
    /\ sel = "param"
    /\ \E t \in Threads :
          /\ par.pc[t] = "load"
          /\ par' = [par EXCEPT !.ret[t] = Parameter_get(par.cells, par.handle[t]),
                                !.pc[t] = "get_return"]
          /\ obs' = [op |-> "load", t |-> t]
    /\ Keep_par

ParameterGetReturn ==
    /\ sel = "param"
    /\ \E t \in Threads :
          /\ par.pc[t] = "get_return"
          /\ par' = [par EXCEPT !.pc[t] = "idle"]
          /\ obs' = [op |-> "get", t |-> t, ret |-> par.ret[t],
                     clean |-> par.clean[t]]
    /\ Keep_par

ParameterNext ==
    \/ ParameterSetCall
    \/ ParameterStore
    \/ ParameterSetReturn
    \/ ParameterGetCall
    \/ ParameterLoad
    \/ ParameterGetReturn

---------------------------------------------------------------------------
(* A host that keeps its block size: the capacities of the vectors and     *)
(* queues of an Ola, a ParallelMixer and an Adsr                           *)

\* Vec::resize to `need` elements: the allocation is kept when it is large
\* enough and otherwise grows to at least twice its size
VecReserve(cap, need) ==
    IF need <= cap THEN cap ELSE IF 2 * cap > need THEN 2 * cap ELSE need

\* VecDeque::push_back up to a length of `need`: a full queue doubles
RECURSIVE DequeGrow(_, _)
DequeGrow(cap, need) ==
    IF need <= cap THEN cap ELSE DequeGrow(IF cap < 2 THEN 4 ELSE 2 * cap, need)

\* ola.rs 137 and 143: the output queue is made from a vector of N zeros,
\* the input queue with room for 2 N samples
OlaCapacity == [input_queue |-> 2 * OLA_N, output_queue |-> OLA_N]

\* ola.rs 161-163 and 181-183: the longest the two queues get in a call
OlaGrown(cap, o, buffer, sample_index) ==
    [input_queue |-> DequeGrow(cap.input_queue, Len(o.input_queue) + Len(buffer)),
     output_queue |-> DequeGrow(cap.output_queue,
                          Len(OlaFrames(OlaPush(o, buffer, sample_index)).output_queue))]

\* parallel_mixer.rs 51-64 and envelope.rs 148-152: every vector resized to
\* the length it has after the call
VecsGrown(cap, p) == [k \in DOMAIN cap |-> VecReserve(cap[k], VecLen(p[k]))]

MixerCapacity == [dry_buffer |-> 0, mix_buffer |-> 0, delay_line |-> 0]

AdsrCapacity ==
    [gate_buffer |-> 0, attack_buffer |-> 0, decay_buffer |-> 0,
     sustain_buffer |-> 0, release_buffer |-> 0]

Steady_new(s) ==
    [n |-> 0 - 1, calls |-> 0,
     cap |-> CASE s = "steady_ola" -> OlaCapacity
               [] s = "steady_mixer" -> MixerCapacity
               [] OTHER -> AdsrCapacity]

\* the block sizes the host may use: any for its first block, the same
\* for every later one
SteadySizes == IF host.n < 0 THEN 1 .. MaxBlock ELSE {host.n}

SteadyStep(n, cap) ==
    /\ host' = [host EXCEPT !.n = n, !.calls = @ + 1, !.cap = cap]
    /\ obs' = [op |-> "steady", n |-> n, first |-> host.n < 0,
               grew |-> {k \in DOMAIN cap : cap[k] # host.cap[k]}]

SteadyOla ==
    /\ sel = "steady_ola"
    /\ host.calls <= MaxCalls
    /\ \E n \in SteadySizes, v \in SampleVals :
          /\ ola' = [ola EXCEPT
                        !.p = FrameProcessor_process(@, Block(n, v), << >>,
                                  [idx |-> ola.total, checked |-> TRUE]).p,
                        !.total = @ + n, !.calls = @ + 1]
          /\ SteadyStep(n, OlaGrown(host.cap, ola.p, Block(n, v), ola.total))
    /\ UNCHANGED <<sel, rv, dl, lm, pp, pm, ch, lfo, gate, adsr, audio, cv, rlm, par>>

SteadyMixer ==
    /\ sel = "steady_mixer"
    /\ pm.fault = "none"
    /\ \E n \in SteadySizes :
          /\ pm.total + n <= MaxTotal
          /\ pm' = [pm EXCEPT
                       !.mixer = FrameProcessor_process(@, Ramp(pm.total, n), << >>,
                                     [idx |-> pm.total, checked |-> TRUE]).p,
                       !.fault = FrameProcessor_process(pm.mixer, Ramp(pm.total, n), << >>,
                                     [idx |-> pm.total, checked |-> TRUE]).fault,
                       !.total = @ + n]
          /\ SteadyStep(n, VecsGrown(host.cap,
                               FrameProcessor_process(pm.mixer, Ramp(pm.total, n), << >>,
                                   [idx |-> pm.total, checked |-> TRUE]).p))
    /\ UNCHANGED <<sel, rv, dl, lm, pp, ch, lfo, gate, ola, adsr, audio, cv, rlm, par>>

SteadyAdsr ==
    /\ sel = "steady_adsr"
    /\ host.calls <= MaxCalls
    /\ \E n \in SteadySizes, k \in 0 .. 1, g \in {0, One} :
          /\ adsr' = AdsrLoop(AdsrScratch(adsr, GateBlock(n, k, g)), << >>, n, FALSE).a
          /\ SteadyStep(n, VecsGrown(host.cap, AdsrScratch(adsr, GateBlock(n, k, g))))
    /\ UNCHANGED <<sel, rv, dl, lm, pp, pm, ch, lfo, gate, ola, audio, cv, rlm, par>>

SteadyNext == SteadyOla \/ SteadyMixer \/ SteadyAdsr

---------------------------------------------------------------------------
(* MonoToStereo on a stereo buffer *)

\* Gain(0.5), with and without latency, in a MonoToStereo and in the chain
\* of test_static_chain_stereo_conversion; a processor out = 2*in + 1
ExpandInits ==
    {[p |-> MonoToStereo_new(Leaf_new(1, lat, g, g - Half)), calls |-> 0] :
        lat \in 0 .. 1, g \in {Half, 2 * One}}
    \cup {[p |-> StaticDspChain_to_stereo(
                    StaticDspChain_new(Leaf_new(1, 0, Half, 0), 44100)),
           calls |-> 0]}

ExpandInner(p) == IF p.kind = "static_chain" THEN p.processor.inner ELSE p.inner

ExpandStep(res, mono, buffer) ==
    /\ cv' = [p |-> res.p, calls |-> cv.calls + 1]
    /\ obs' = [op |-> "process", n |-> Len(buffer), in |-> buffer,
               out |-> res.buf, fault |-> res.fault, mono |-> mono.buf]

\* process() on a buffer of n samples, beside the inner processor run on
\* the first n / 2 of them
ExpandProcess ==
    /\ sel = "expand"
    /\ cv.calls < MaxCalls
    /\ \E n \in 0 .. MaxBlock, from \in 0 .. 2 :
          ExpandStep(FrameProcessor_process(cv.p, Ramp(from, n), <<>>,
                                            [idx |-> 0, checked |-> TRUE]),
                     FrameProcessor_process(ExpandInner(cv.p),
                                            SubSeq(Ramp(from, n), 1, n \div 2), <<>>,
                                            [idx |-> 0, checked |-> TRUE]),
                     Ramp(from, n))
    /\ Keep_cv

---------------------------------------------------------------------------
(* Gain, Offset and Passthrough on host buffers *)

UnitValues == {0, Half, One, 0 - One}

UnitInits ==
    {[p |-> Gain_new(AudioParam_Static(v)), calls |-> 0] : v \in UnitValues}
    \cup {[p |-> Gain_new(AudioParam_Ramp(One, Half)), calls |-> 0]}
    \cup {[p |-> Offset_new(AudioParam_Static(v), c), calls |-> 0] :
             v \in UnitValues, c \in 1 .. 2}
    \cup {[p |-> Offset_new(AudioParam_Ramp(0, Half), 1), calls |-> 0],
          [p |-> Passthrough_new, calls |-> 0]}

\* the buffers of a host: ramps through negative and positive values, and
\* the buffer of test_gain
UnitBlocks ==
    {[i \in 1 .. n |-> (from + i - 3) * Half] : n \in 0 .. MaxBlock, from \in 0 .. 2}
    \cup {<<One, 0 - One, 0, Half>>}

UnitProcess ==
    /\ sel = "unit"
    /\ cv.calls < MaxCalls
    /\ \E buffer \in UnitBlocks :
          /\ cv' = [p |-> FrameProcessor_process(cv.p, buffer, <<>>,
                              [idx |-> 0, checked |-> TRUE]).p,
                    calls |-> cv.calls + 1]
          /\ obs' = [op |-> "process", n |-> Len(buffer), in |-> buffer,
                     out |-> FrameProcessor_process(cv.p, buffer, <<>>,
                                 [idx |-> 0, checked |-> TRUE]).buf,
                     fault |-> FrameProcessor_process(cv.p, buffer, <<>>,
                                   [idx |-> 0, checked |-> TRUE]).fault]
    /\ Keep_cv

---------------------------------------------------------------------------
(* Adsr under changes of the sample rate and of its time parameters *)

\* envelope.rs 227-234: the rate is stored and forwarded to the parameters
Adsr_set_sample_rate(a, sample_rate) == [a EXCEPT !.sample_rate = sample_rate]

\* Adsr::set_attack, set_decay and set_release with Static times
Adsr_set_times(a, attack, decay, release) ==
    [a EXCEPT !.attack_time = attack, !.decay_time = decay, !.release_time = release]

\* an envelope whose times are those of the recalc in Adsr::new, and one
\* with other times
AdsrRateInits ==
    {Adsr_new(Fx(1, 100), Fx(1, 10), Half, Fx(1, 10)),
     Adsr_new(Half, Fx(3, 4), Half, Fx(3, 4))}

AdsrRates == {SampleRate, 2 * SampleRate}

AdsrRateSet ==
    /\ sel = "adsr_rate"
    /\ \E sr \in AdsrRates : adsr' = Adsr_set_sample_rate(adsr, sr)
    /\ obs' = [op |-> "set_sample_rate"]
    /\ UNCHANGED audio
    /\ Keep_adsr

AdsrRateTimes ==
    /\ sel = "adsr_rate"
    /\ \E t \in {Half, Fx(3, 4)} : adsr' = Adsr_set_times(adsr, t, t, t)
    /\ obs' = [op |-> "set_times"]
    /\ UNCHANGED audio
    /\ Keep_adsr

\* Adsr::process on a block of n samples, no trigger pending
AdsrRateProcess ==
    /\ sel = "adsr_rate"
    /\ audio.calls < MaxCalls
    /\ \E n \in 0 .. MaxBlock \div 2, k \in 0 .. 1, g \in {0, One} :
          /\ adsr' = AdsrLoop(AdsrScratch(adsr, GateBlock(n, k, g)), << >>, n, FALSE).a
          /\ obs' = [op |-> "process", n |-> n]
    /\ audio' = [audio EXCEPT !.calls = @ + 1]
    /\ Keep_adsr

AdsrRateNext == AdsrRateSet \/ AdsrRateTimes \/ AdsrRateProcess

---------------------------------------------------------------------------
(* The queues of an Ola over a sequence of blocks *)

\* obs.emitted counts the samples emitted since construction or reset
OlaEmitted == IF obs.op = "process" THEN obs.emitted + obs.n ELSE 0

OlaQueueStep(framed, buffer) ==
    /\ ola' = [ola EXCEPT !.p = OlaPop(framed, Len(buffer)).p,
                          !.total = @ + Len(buffer), !.calls = @ + 1]
    /\ obs' = [op |-> "process", n |-> Len(buffer),
               out |-> OlaPop(framed, Len(buffer)).buf,
               emitted |-> OlaEmitted,
               in_before |-> Len(ola.p.input_queue),
               out_before |-> Len(ola.p.output_queue),
               in_framed |-> Len(framed.input_queue),
               out_framed |-> Len(framed.output_queue)]

\* Ola::process on a block of n samples; `framed` is the Ola after the
\* frames of the call (lines 157-192), from which the samples are popped
OlaQueueProcess ==
    /\ sel = "ola_q"
    /\ ola.calls <= MaxCalls
    /\ \E n \in 0 .. MaxBlock :
          OlaQueueStep(OlaFrames(OlaPush(ola.p, Block(n, One), ola.total)),
                       Block(n, One))
    /\ Keep_ola

OlaQueueReset ==
    /\ sel = "ola_q"
    /\ ola' = [ola EXCEPT !.p = FrameProcessor_reset(@)]
    /\ obs' = [op |-> "reset"]
    /\ Keep_ola

OlaQueueNext == OlaQueueProcess \/ OlaQueueReset

---------------------------------------------------------------------------
(* An Adsr run sample by sample for as long as the host likes *)

\* envelopes with an attack of two samples and of none, and a release of
\* three samples and of twelve
AdsrRunInits ==
    {Adsr_new(a, Fx(3, 4), Half, r) : a \in {0, Half}, r \in {Fx(3, 4), 3 * One}}

\* Adsr::process on a block of one sample whose gate is g: the flag loaded
\* and cleared, the loop body run once. obs keeps the state before the
\* sample, the state after the edge logic, and the level before.
AdsrRunSample ==
    /\ sel = "adsr_run"
    /\ \E g \in {0, One} :
          /\ adsr' = AdsrLoop([AdsrScratch(adsr, <<g>>) EXCEPT !.retrigger = FALSE],
                              << >>, 1, adsr.retrigger).a
          /\ obs' = [op |-> "sample", gate |-> g, last_gate |-> adsr.last_gate,
                     triggered |-> adsr.retrigger, from |-> adsr.state,
                     edge |-> AdsrEdge(adsr, g, adsr.retrigger).state,
                     level |-> adsr.current_level]
    /\ UNCHANGED audio
    /\ Keep_adsr

\* Trigger::fire() between two process() calls
AdsrRunFire ==
    /\ sel = "adsr_run"
    /\ ~adsr.retrigger
    /\ adsr' = Trigger_fire(adsr)
    /\ obs' = [obs EXCEPT !.op = "fire"]
    /\ UNCHANGED audio
    /\ Keep_adsr

AdsrRunNext == AdsrRunSample \/ AdsrRunFire

\* --- the audio callback on an envelope driven by its gate alone, one ---
\* --- sample per call, in the three parts of the loop body            ---

AdsrLiveInits == {Adsr_new(Half, Fx(3, 4), Half, r) : r \in {Fx(3, 4), 3 * One}}

\* lines 146-180: the scratch vectors filled, the flag loaded and cleared,
\* the coefficients brought up to date
AdsrLiveBegin ==
    /\ sel = "adsr_live"
    /\ audio.pc = "idle"
    /\ \E g \in {0, One} :
          /\ adsr' = Adsr_recalc([AdsrScratch(adsr, <<g>>) EXCEPT !.retrigger = FALSE],
                                 adsr.attack_time, adsr.decay_time, adsr.release_time)
          /\ obs' = [op |-> "begin", gate |-> g, last_gate |-> adsr.last_gate,
                     triggered |-> adsr.retrigger, from |-> adsr.state,
                     edge |-> adsr.state, level |-> adsr.current_level]
    /\ audio' = [audio EXCEPT !.pc = "edge", !.triggered = adsr.retrigger]
    /\ Keep_adsr

\* lines 182-191
AdsrLiveEdge ==
    /\ sel = "adsr_live"
    /\ audio.pc = "edge"
    /\ adsr' = AdsrEdge(adsr, adsr.gate_buffer[0], audio.triggered)
    /\ obs' = [obs EXCEPT !.op = "edge",
                          !.edge = AdsrEdge(adsr, adsr.gate_buffer[0],
                                            audio.triggered).state]
    /\ audio' = [audio EXCEPT !.pc = "advance", !.triggered = FALSE]
    /\ Keep_adsr

\* lines 193-223
AdsrLiveAdvance ==
    /\ sel = "adsr_live"
    /\ audio.pc = "advance"
    /\ adsr' = AdsrAdvance(adsr, adsr.sustain_buffer[0])
    /\ obs' = [obs EXCEPT !.op = "sample"]
    /\ audio' = [audio EXCEPT !.pc = "idle"]
    /\ Keep_adsr

AdsrLiveNext == AdsrLiveBegin \/ AdsrLiveEdge \/ AdsrLiveAdvance

---------------------------------------------------------------------------
(* SummingMixer over inputs that read the block they are run on *)

\* mixers of generators (leaves with gain 0, which overwrite their block)
\* and of processors that read their block; latencies 0 to 2
SumInputs ==
    {<< >>,
     <<Leaf_new(1, 1, One, One)>>,
     <<Leaf_new(1, 0, 0, One), Leaf_new(2, 2, 0, Half), Leaf_new(3, 1, 0, One)>>,
     <<Gain_new(AudioParam_Static(Half)), Offset_new(AudioParam_Static(One), 1)>>,
     <<Gain_new(AudioParam_Static(Half)), Offset_new(AudioParam_Static(One), 1),
       Offset_new(AudioParam_Static(One), 1)>>,
     <<Leaf_new(1, 2, One, 0), Passthrough_new, Leaf_new(2, 1, Half, One)>>}

SumInits == {[p |-> SummingMixer_new(inputs), calls |-> 0] : inputs \in SumInputs}

\* lines 76-81: the scratch slice as it is when the loop over inputs[1..]
\* starts
SumScratch(p, n) == [i \in 1 .. n |-> GrowTo(p.temp_buffer, n)[i - 1]]

\* the scratch slice as it is when input k >= 2 is run on it
SumHanded(p, buffer, k, env) ==
    IF k = 2 THEN SumScratch(p, Len(buffer))
    ELSE [i \in 1 .. Len(buffer) |->
             SumFirst([p EXCEPT !.inputs = SubSeq(@, 1, k - 1)],
                      FrameProcessor_process(p.inputs[1], buffer, << >>, env),
                      env).p.temp_buffer[i - 1]]

\* the sum of the outputs of inputs k .. when each is run on `scratch`
RECURSIVE SumApart(_, _, _, _)
SumApart(p, scratch, k, env) ==
    IF k > Len(p.inputs) THEN [i \in 1 .. Len(scratch) |-> 0]
    ELSE [i \in 1 .. Len(scratch) |->
             FrameProcessor_process(p.inputs[k], scratch, << >>, env).buf[i]
             + SumApart(p, scratch, k + 1, env)[i]]

SumProcess ==
    /\ sel = "sum"
    /\ cv.calls < MaxCalls
    /\ \E n \in 0 .. MaxBlock, from \in 0 .. 1 :
          /\ cv' = [p |-> FrameProcessor_process(cv.p, Ramp(from, n), << >>,
                              [idx |-> 0, checked |-> TRUE]).p,
                    calls |-> cv.calls + 1]
          /\ obs' = [op |-> "sum", n |-> n, m |-> Len(cv.p.inputs),
                     out |-> FrameProcessor_process(cv.p, Ramp(from, n), << >>,
                                 [idx |-> 0, checked |-> TRUE]).buf,
                     first |-> IF cv.p.inputs = << >> THEN Block(n, 0)
                               ELSE FrameProcessor_process(cv.p.inputs[1], Ramp(from, n),
                                        << >>, [idx |-> 0, checked |-> TRUE]).buf,
                     apart |-> SumApart(cv.p, SumScratch(cv.p, n), 2,
                                        [idx |-> 0, checked |-> TRUE]),
                     carried |-> {k \in 3 .. Len(cv.p.inputs) :
                                     SumHanded(cv.p, Ramp(from, n), k,
                                               [idx |-> 0, checked |-> TRUE])
                                     # SumHanded(cv.p, Ramp(from, n), k - 1,
                                                 [idx |-> 0, checked |-> TRUE])}]
    /\ Keep_cv

---------------------------------------------------------------------------
(* DelayLowMem: the frames counted since construction or reset *)

\* rings of 1, 2 and 3 slots, with and without feedback
LowMemPairInits ==
    {DelayLowMem_new(m, Fx(1, 4), fb, Half) :
        m \in {Fx(1, 2), One, Fx(3, 2)}, fb \in {0, Half}}

\* the i-th frame of the host's stream, i >= 1: values in [-1, 1] in steps
\* of 1/4, no two neighbours equal
LowMemInput(i) == (((3 * i) % 7) - 3) * Fx(1, 4)

LowMemFrames(from, n) == [i \in 1 .. n |-> LowMemInput(from + i)]

\* frames processed since construction or reset
LowMemTotal == IF obs.op = "none" THEN 0 ELSE obs.total

LowMemPairProcess ==
    /\ sel = "lowmem_pairs"
    /\ lm.fault = "none"
    /\ \E n \in 0 .. MaxBlock :
          /\ LowMemTotal + n <= MaxTotal
          /\ lm' = DelayLowMem_process(lm, LowMemFrames(LowMemTotal, n)).d
          /\ obs' = [op |-> "process", total |-> LowMemTotal + n,
                     from |-> LowMemTotal, before |-> lm.buffer]
    /\ Keep_lm

LowMemPairReset ==
    /\ sel = "lowmem_pairs"
    /\ lm.fault = "none"
    /\ LowMemTotal > 0
    /\ lm' = DelayLowMem_reset(lm)
    /\ obs' = [op |-> "reset", total |-> 0, from |-> 0,
               before |-> DelayLowMem_reset(lm).buffer]
    /\ Keep_lm

LowMemPairNext == LowMemPairProcess \/ LowMemPairReset

---------------------------------------------------------------------------
(* Oscillator: synthesis/oscillator.rs *)

OscWaveforms == {"Sine", "Triangle", "Saw", "Square", "WhiteNoise"}

Oscillator_new(frequency, waveform) ==
    [kind |-> "osc", phase |-> 0, frequency |-> frequency, waveform |-> waveform,
     sample_rate |-> SampleRate, freq_buffer |-> Vec(0, 0),
     rng_state |-> [hi |-> 0, lo |-> 12345]]

\* lines 51-60
OscPolyBlep(t, dt) ==
    IF t < dt
    THEN 2 * Quot(t * One, dt) - Mul(Quot(t * One, dt), Quot(t * One, dt)) - One
    ELSE IF t > One - dt
    THEN Mul(Quot((t - One) * One, dt), Quot((t - One) * One, dt))
         + 2 * Quot((t - One) * One, dt) + One
    ELSE 0

\* line 63: rng_state.wrapping_mul(1103515245).wrapping_add(12345) on 32
\* bits, kept as two 16-bit halves; 1103515245 = 16838 * 2^16 + 20077
OscRngNext(s) ==
    [lo |-> (s.lo * 20077 + 12345) % (2 ^ 16),
     hi |-> (((s.hi * 20077) % (2 ^ 16)) + ((s.lo * 16838) % (2 ^ 16))
             + ((s.lo * 20077 + 12345) \div (2 ^ 16))) % (2 ^ 16)]

\* lines 64-65: ((rng_state >> 16) & 0x7FFF) as f32 / 32768.0 * 2.0 - 1.0
OscRngValue(s) == ((s.hi % (2 ^ 15)) * 2 * One) \div (2 ^ 15) - One

\* lines 84-93: the phase advanced by inc and wrapped once, up or down
OscAdvance(o, inc) ==
    IF o.phase + inc >= One THEN [o EXCEPT !.phase = @ + inc - One]
    ELSE IF o.phase + inc < 0 THEN [o EXCEPT !.phase = @ + inc + One]
    ELSE [o EXCEPT !.phase = @ + inc]

\* lines 95-118: the waveform at current_phase; rng is the generator state
\* after its update for this sample
OscValue(o, current_phase, inc, rng) ==
    CASE o.waveform = "Sine" -> LfoSin(current_phase)
      [] o.waveform = "Triangle" ->
            IF current_phase < Half THEN 4 * current_phase - One
            ELSE 4 * (One - current_phase) - One
      [] o.waveform = "Saw" ->
            2 * current_phase - One
            - OscPolyBlep(current_phase, IF inc < 0 THEN 0 - inc ELSE inc)
      [] o.waveform = "Square" ->
            (IF current_phase < Half THEN One ELSE 0 - One)
            + OscPolyBlep(current_phase, IF inc < 0 THEN 0 - inc ELSE inc)
            - OscPolyBlep((current_phase + Half) % One, IF inc < 0 THEN 0 - inc ELSE inc)
      [] o.waveform = "WhiteNoise" -> OscRngValue(rng)

\* lines 76-122: the sample loop on a local copy of rng_state, stored back
\* after the loop
RECURSIVE OscLoop(_, _, _, _)
OscLoop(o, rng, out, n) ==
    IF Len(out) = n THEN [o |-> [o EXCEPT !.rng_state = rng], buf |-> out]
    ELSE OscLoop(OscAdvance(o, Quot(o.freq_buffer[Len(out)], o.sample_rate)),
                 IF o.waveform = "WhiteNoise" THEN OscRngNext(rng) ELSE rng,
                 Append(out, OscValue(o, o.phase,
                                      Quot(o.freq_buffer[Len(out)], o.sample_rate),
                                      OscRngNext(rng))),
                 n)

\* a process that drops the generator state at the end of the block
Oscillator_process_local_rng(o, freqs) ==
    [OscLoop([o EXCEPT !.freq_buffer = [i \in 0 .. Len(freqs) - 1 |-> freqs[i + 1]]],
             o.rng_state, << >>, Len(freqs))
        EXCEPT !.o.rng_state = o.rng_state]

\* Oscillator::process on a block of Len(freqs) samples; freqs is what the
\* frequency parameter writes for the block (lines 68-74)
Oscillator_process(o, freqs) ==
    OscLoop([o EXCEPT !.freq_buffer = [i \in 0 .. Len(freqs) - 1 |-> freqs[i + 1]]],
            o.rng_state, << >>, Len(freqs))

\* --- phase under frequency sequences of either sign ---

\* frequencies in Hz with |freq| < sample_rate
PhaseFreqs == {f * One : f \in {1 - SampleRate, 0 - 1, 0, 1, SampleRate - 1}}

PhaseFreqBlocks == UNION {[1 .. n -> PhaseFreqs] : n \in 1 .. 2}

PhaseOscInits ==
    {[p |-> Oscillator_new(AudioParam_Dynamic(0), w), calls |-> 0] : w \in OscWaveforms}

PhaseLfoInits ==
    {Lfo_new(AudioParam_Dynamic(0), w) : w \in {"Triangle", "Saw", "Square", "SampleAndHold"}}

OscPhaseProcess ==
    /\ sel = "phase_osc"
    /\ cv.calls < MaxBlock
    /\ \E freqs \in PhaseFreqBlocks :
          /\ cv' = [p |-> Oscillator_process(cv.p, freqs).o, calls |-> cv.calls + 1]
          /\ obs' = [op |-> "osc", n |-> Len(freqs), from |-> cv.p.phase,
                     back |-> \E i \in DOMAIN freqs : freqs[i] < 0]
    /\ Keep_cv

LfoPhaseProcess ==
    /\ sel = "phase_lfo"
    /\ lfo.calls < MaxBlock
    /\ \E freqs \in PhaseFreqBlocks :
          /\ lfo' = [LfoLoop([lfo EXCEPT !.freq_buffer =
                                  [i \in 0 .. Len(freqs) - 1 |-> freqs[i + 1]]],
                             << >>, Len(freqs)).l
                        EXCEPT !.calls = @ + 1]
          /\ obs' = [op |-> "lfo", n |-> Len(freqs), from |-> lfo.phase,
                     back |-> \E i \in DOMAIN freqs : freqs[i] < 0]
    /\ Keep_lfo

PhaseNext == OscPhaseProcess \/ LfoPhaseProcess

\* --- white noise over a stream cut into blocks ---

NoiseInits ==
    {[p |-> Oscillator_new(AudioParam_Static(f * One), "WhiteNoise"), calls |-> 0] :
        f \in {0 - 1, 1, 2}}

\* samples generated since construction
NoiseTotal == IF obs.op = "none" THEN 0 ELSE obs.total

OscNoiseProcess ==
    /\ sel = "noise"
    /\ cv.calls <= MaxCalls
    /\ \E n \in 0 .. MaxBlock :
          /\ NoiseTotal + n <= MaxTotal
          /\ cv' = [p |-> Oscillator_process(cv.p, Block(n, cv.p.frequency.value)).o,
                    calls |-> cv.calls + 1]
          /\ obs' = [op |-> "noise", total |-> NoiseTotal + n, from |-> NoiseTotal,
                     out |-> Oscillator_process(cv.p,
                                 Block(n, cv.p.frequency.value)).buf]
    /\ Keep_cv

---------------------------------------------------------------------------
(* Specifications *)

NoObs == [op |-> "none"]

InitFor(S) ==
    /\ sel \in S
    /\ rv = Reverb_new
    /\ dl \in IF sel = "delay_whole"
               THEN DelayWholeInits
               ELSE IF sel = "delay_frac"
               THEN DelayFracInits
               ELSE {Delay_new(Fx(5, 4), Fx(1, 4), Half, Half)}
    /\ lm \in IF sel = "lowmem_pairs" THEN LowMemPairInits
               ELSE {DelayLowMem_new(Fx(5, 2), One, Half, Half)}
    /\ pp = PingPongDelay_new(Fx(5, 4), Fx(1, 2), Half, Half)
    /\ pm \in IF sel = "blend" THEN BlendInits ELSE {Mixer_new}
    /\ ch \in IF sel = "chain"
               THEN {Chain_new(first, sample_rate) : first \in Parts, sample_rate \in ChainRates}
               ELSE {Chain_new(Leaf_new(1, 0, 2 * One, 0), 44100)}
    /\ lfo \in IF sel = "lfo"
                THEN {Lfo_new(One, waveform) : waveform \in Waveforms}
                ELSE IF sel = "phase_lfo" THEN PhaseLfoInits
                ELSE {Lfo_new(One, "Sine")}
    /\ gate \in IF sel = "gate_run" THEN TimedGateInits
                 ELSE {TimedGate_new(Fx(3, 4), SampleRate)}
    /\ ola = [p |-> Ola_with, total |-> 0, calls |-> 0]
    /\ adsr \in IF sel = "adsr_rate" THEN AdsrRateInits
                 ELSE IF sel = "adsr_run" THEN AdsrRunInits
                 ELSE IF sel = "adsr_live" THEN AdsrLiveInits
                 ELSE {Adsr_new(Half, Fx(3, 4), Half, Fx(3, 4))}
    /\ audio = [pc |-> "idle", n |-> 0, triggered |-> FALSE, due |-> FALSE,
                pending |-> FALSE, late |-> FALSE, fired |-> FALSE, calls |-> 0]
    /\ cv \in IF sel = "convert" THEN ConvertInits
               ELSE IF sel = "expand" THEN ExpandInits
               ELSE IF sel = "unit" THEN UnitInits
               ELSE IF sel = "sum" THEN SumInits
               ELSE IF sel = "phase_osc" THEN PhaseOscInits
               ELSE IF sel = "noise" THEN NoiseInits
               ELSE IF sel = "stereo_dual" THEN DualMonoInits
               ELSE {[p |-> Passthrough_new, calls |-> 0]}
    /\ rlm = ReverbLowMem_new
    /\ par = Parameter_shared
    /\ host = Steady_new(sel)
    /\ obs = NoObs

InitReverb == InitFor({"reverb"})

SpecReverb == InitReverb /\ [][ReverbNext]_vars

\* C1: feeding a Reverb F1 frames and then F2 frames leaves the same output
\* samples, ring contents and ring indices as feeding it the F1 + F2 frames
\* in one call.
C1_SplitEqualsSingle ==
    obs.op = "twice" =>
        /\ obs.out = obs.single_out
        /\ obs.rings = obs.single_rings

\* C1: a block was fed both split in two calls and whole, none of them faulting
C1_SplitCompared ==
    /\ obs.op = "twice"
    /\ obs.rings.fault = "none"
    /\ obs.single_rings.fault = "none"

InitDelay == InitFor({"delay"})

SpecDelay == InitDelay /\ [][DelayNext]_vars

InitLowMem == InitFor({"lowmem"})

SpecLowMem == InitLowMem /\ [][DelayLowMemNext]_vars

\* the ring-buffer processors: Reverb's delay lines, Delay and DelayLowMem
InitRings == InitFor({"reverb", "delay", "lowmem"})

RingsNext == ReverbNext \/ DelayNext \/ DelayLowMemNext

SpecRings == InitRings /\ [][RingsNext]_vars

\* C2: every ring index of the Reverb's delay lines, of Delay and of
\* DelayLowMem is inside [0, len) after every call, and no call indexes a
\* ring outside that range.
C2_RingIndicesInRange ==
    /\ \A k \in DOMAIN rv.combs :
          rv.combs[k].delay.index \in DOMAIN rv.combs[k].delay.buffer
    /\ \A k \in DOMAIN rv.allpasses :
          rv.allpasses[k].delay.index \in DOMAIN rv.allpasses[k].delay.buffer
    /\ rv.fault # "ring"
    /\ dl.write_ptr \in DOMAIN dl.buffer
    /\ dl.fault # "ring"
    /\ lm.write_ptr \in DOMAIN lm.buffer
    /\ lm.fault # "ring"

\* C2: each of the three processors has been fed a block that crosses the end
\* of its ring
C2_RingWrapped ==
    /\ obs.op = "process"
    /\ obs.n > 2 * Len(CombLengths)
    /\ \/ sel = "reverb" /\ \E k \in DOMAIN rv.combs : rv.combs[k].delay.index < obs.n \div 2
       \/ sel = "delay" /\ dl.write_ptr < obs.n
       \/ sel = "lowmem" /\ lm.write_ptr < obs.n \div 2

\* the processors that index element 0 of a scratch vector they size in process()
InitScratch == InitFor({"reverb", "delay", "pingpong"})

ScratchNext == ReverbNext \/ DelayNext \/ PingPongProcess

SpecScratch == InitScratch /\ [][ScratchNext]_vars

\* C3: process() on an empty buffer returns without a fault and leaves the
\* processor as it was, a freshly constructed Delay, PingPongDelay or Reverb
\* included.
C3_EmptyBlockIsNoOp ==
    (obs.op = "process" /\ obs.n = 0) =>
        /\ sel = "reverb" => rv = obs.before
        /\ sel = "delay" => [dl EXCEPT !.calls = obs.before.calls] = obs.before
        /\ sel = "pingpong" => [pp EXCEPT !.calls = obs.before.calls] = obs.before

\* C3: an empty block was handed to a freshly constructed processor
C3_EmptyBlockOnFresh ==
    /\ obs.op = "process"
    /\ obs.n = 0
    /\ \/ sel = "reverb" /\ obs.before = Reverb_new
       \/ sel = "delay" /\ obs.before.delay_buffer = Vec(0, 0)
       \/ sel = "pingpong" /\ obs.before.delay_buffer = Vec(0, 0)

InitMixer == InitFor({"pmix"})

SpecMixer == InitMixer /\ [][MixerNext]_vars

\* C4: with a wrapped processor of latency L > 0, the dry signal at output
\* frame n is the input at frame n - L (silence for n <= L), for blocks of
\* every length, those longer than the ring's slack included, and no call
\* faults.
C4_DryAligned ==
    (sel = "pmix" /\ obs.op = "process") =>
        /\ pm.fault = "none"
        /\ obs.out = obs.owed

\* C4: a block longer than the ring's slack was mixed after earlier blocks
C4_LongBlockMixed ==
    /\ sel = "pmix"
    /\ obs.op = "process"
    /\ obs.n > PM_SLACK
    /\ pm.total > obs.n

\* the processors that define reset()
InitReset == InitFor({"lfo", "gate", "ola", "lowmem"})

ResetNext == LfoNext \/ TimedGateNext \/ OlaNext \/ DelayLowMemNext

SpecReset == InitReset /\ [][ResetNext]_vars

\* C5: for Lfo (every waveform), Ola, TimedGate and DelayLowMem, a block
\* processed right after reset() gives the output a freshly constructed
\* instance with the same configuration gives on that block.
C5_ResetEqualsFresh ==
    (obs.op = "process" /\ obs.after_reset) => obs.out = obs.fresh_out

\* C5: a SampleAndHold Lfo that had run was reset and then processed a block
C5_ResetThenProcess ==
    /\ sel = "lfo"
    /\ lfo.waveform = "SampleAndHold"
    /\ lfo.calls = 2
    /\ obs.op = "process"
    /\ obs.after_reset
    /\ obs.n > 0

InitAdsr == InitFor({"adsr"})

SpecAdsr == InitAdsr /\ [][AdsrNext]_vars

\* C6: no fire() is lost: while no process() call is in progress, a fire()
\* that no call begun after it has answered still has its flag set; a call
\* retriggers only after a fire(), and then its first sample is the first
\* step of an attack from level 0.
C6_NoFireLost ==
    sel = "adsr" =>
        /\ (audio.pc = "idle" /\ audio.pending) => adsr.retrigger
        /\ (obs.op = "process" /\ obs.retriggered) =>
              /\ obs.fired
              /\ obs.out[1] = Min(One, adsr.attack_step)

\* C6: a call on an empty block ran after a fire()
C6_EmptyBlockAfterFire ==
    /\ sel = "adsr"
    /\ obs.op = "process"
    /\ obs.n = 0
    /\ obs.fired

InitChain == InitFor({"chain"})

SpecChain == InitChain /\ [][ChainNext]_vars

\* chains built with new() and and() only
AndNext == ChainAnd \/ ChainProcess \/ ChainReset

SpecAnd == InitChain /\ [][AndNext]_vars

\* what the k-th of the processors leaves of a block when each runs on the
\* buffer the one before it left
RECURSIVE RunInOrder(_, _, _, _)
RunInOrder(children, k, buffer, idx) ==
    IF k = 0 THEN buffer
    ELSE FrameProcessor_process(children[k], RunInOrder(children, k - 1, buffer, idx),
                                << >>, [idx |-> idx, checked |-> TRUE]).buf

\* C7: a DspChain and a StaticDspChain built by the same new(p1).and(p2)...
\* run every processor once per process call, in append order, each on the
\* buffer the previous one left and with the chain's sample_index; with
\* their processors in the same state they give the same output; and both
\* report the sum of the processors' latencies.
C7_ChainsAgree ==
    (sel = "chain" /\ ch.plain) =>
        /\ FrameProcessor_latency_samples(ch.dyn) = ch.latency
        /\ FrameProcessor_latency_samples(ch.sta) = ch.latency
        /\ obs.op = "process" =>
              /\ obs.dyn_trace = [k \in 1 .. Len(ch.ids) |-> <<ch.ids[k], obs.idx>>]
              /\ obs.sta_trace = obs.dyn_trace
              /\ obs.dyn_out = RunInOrder(obs.dyn_before, Len(obs.dyn_before),
                                          obs.input, obs.idx)
              /\ obs.sta_out = RunInOrder(obs.sta_before, Len(obs.sta_before),
                                          obs.input, obs.idx)
              /\ obs.dyn_before = obs.sta_before => obs.dyn_out = obs.sta_out

\* C7: both chains, of three processors appended with and(), have processed
\* their second block
C7_ThreeProcessorsRan ==
    /\ sel = "chain"
    /\ ch.plain
    /\ Len(ch.dyn.processors) = 3
    /\ ch.calls = 2
    /\ obs.op = "process"
    /\ obs.n > 1
    /\ obs.dyn_before = obs.sta_before

\* the sample rates last given to the processors and parameter sub-graphs
\* inside p (0: none was ever given)
RECURSIVE RatesIn(_)
RatesIn(p) ==
    CASE p.kind = "leaf" -> {p.sample_rate}
      [] p.kind = "dynamic" -> {p.sample_rate}
      [] p.kind = "pmix" -> RatesIn(p.processor) \cup RatesIn(p.mix)
      [] p.kind = "serial" -> RatesIn(p.first) \cup RatesIn(p.second)
      [] p.kind = "chain" -> UNION {RatesIn(p.processors[k]) : k \in DOMAIN p.processors}
      [] p.kind = "static_chain" -> RatesIn(p.processor)
      [] p.kind = "sum" ->
            UNION {RatesIn(p.inputs[k]) : k \in DOMAIN p.inputs} \cup RatesIn(p.gain)
      [] OTHER -> {}

\* C8: after every new / and / and_mix / and_mix_param / set_sample_rate,
\* every processor a chain owns, the mix parameter's sub-graph of an
\* and_mix_param mixer included, was last given the chain's stored rate.
C8_RatePropagated ==
    sel = "chain" =>
        /\ RatesIn(ch.dyn) = {ch.dyn.sample_rate}
        /\ RatesIn(ch.sta) = {ch.sta.sample_rate}

\* C8: a mixer with a Dynamic mix parameter was appended with and_mix_param
C8_DynamicMixAppended ==
    /\ sel = "chain"
    /\ obs.op = "and_mix_param"
    /\ ch.dyn.processors[Len(ch.dyn.processors)].mix.kind = "dynamic"

\* no processor inside p holds history, and no ParallelMixer's dry ring does
RECURSIVE Silent(_)
Silent(p) ==
    CASE p.kind = "leaf" -> ~p.dirty /\ \A i \in DOMAIN p.line : p.line[i] = 0
      [] p.kind = "pmix" ->
            /\ Silent(p.processor)
            /\ \A i \in DOMAIN p.delay_line : p.delay_line[i] = 0
      [] p.kind = "serial" -> Silent(p.first) /\ Silent(p.second)
      [] p.kind = "chain" -> \A k \in DOMAIN p.processors : Silent(p.processors[k])
      [] p.kind = "static_chain" -> Silent(p.processor)
      [] p.kind = "sum" -> \A k \in DOMAIN p.inputs : Silent(p.inputs[k])
      [] OTHER -> TRUE

\* C9: reset() on a root reaches every processor below it, and clears the
\* dry ring of every ParallelMixer.
C9_ResetReachesAll ==
    (sel = "chain" /\ obs.op = "reset") => Silent(ch.dyn) /\ Silent(ch.sta)

\* C9: chains that hold a ParallelMixer were reset after they had run
C9_ResetAfterRun ==
    /\ sel = "chain"
    /\ obs.op = "reset"
    /\ ch.calls > 0
    /\ \E k \in DOMAIN ch.dyn.processors : ch.dyn.processors[k].kind = "pmix"

\* C10: an Ola<_, N>, which delays its signal by N samples, reports a
\* latency of N, so that a chain adds N for it and a ParallelMixer around it
\* delays the dry path by N.
C10_OlaReportsLatency ==
    (sel = "ola" /\ obs.op = "process") =>
        /\ FrameProcessor_latency_samples(ola.p) = OLA_N
        /\ FrameProcessor_latency_samples(ParallelMixer_new(Half, ola.p)) = OLA_N
        /\ FrameProcessor_latency_samples(
               DspChain_and(DspChain_new(Leaf_new(1, LeafLatency, One, 0), 44100), ola.p))
           = LeafLatency + OLA_N

\* C10: a fresh Ola gave its N prefilled zeros and then processed samples
\* (the first of them under the window's zero end point)
C10_OlaPrefillEmitted ==
    /\ sel = "ola"
    /\ obs.op = "process"
    /\ ola.calls = 1
    /\ obs.n > OLA_N + 1
    /\ \A i \in 1 .. OLA_N : obs.out[i] = 0
    /\ obs.out[OLA_N + 2] # 0


InitDelayWhole == InitFor({"delay_whole"})

SpecDelayWhole == InitDelayWhole /\ [][DelayWholeProcess]_vars

\* C11: for a Delay with a constant delay of d whole samples, feedback f and
\* mix m, fed from an empty ring, every output sample of every block is
\* x[n]*(1-m) + r[n-d]*m with r[n] = x[n] + f*r[n-d] the value written to the
\* ring, whichever of the 4-sample path and the one-sample path the block takes.
C11_DelayRecurrence ==
    (sel = "delay_whole" /\ obs.op = "process") => obs.out = obs.want

\* C11: a block went through the 4-sample path with a delay shorter than
\* the 4 samples of a chunk
C11_ChunkPathRan ==
    /\ sel = "delay_whole"
    /\ obs.op = "process"
    /\ obs.n >= 4
    /\ DelayFastPath(obs.before, obs.n)
    /\ DelayWholeSamples(obs.before) < 4
    /\ dl.fault = "none"


InitConvert == InitFor({"convert"})

SpecConvert == InitConvert /\ [][ConvertProcess]_vars

\* C12: StereoToMono(MonoToStereo(Passthrough)), and the chain built by
\* to_stereo().to_mono() on a mono chain of Passthrough, leave every mono
\* buffer as it was: out[i] = in[i] for every i and every buffer length.
C12_RoundTripIsIdentity ==
    (sel = "convert" /\ obs.op = "process") =>
        /\ obs.fault = "none"
        /\ obs.out = obs.in

\* C12: a mono block of at least two different samples went through the
\* round trip
C12_RoundTripRan ==
    /\ sel = "convert"
    /\ obs.op = "process"
    /\ obs.n >= 2
    /\ obs.fault = "none"
    /\ cv.p.kind = "static_chain"


InitBlend == InitFor({"blend"})

SpecBlend == InitBlend /\ [][BlendProcess]_vars

\* C13: on an interleaved stereo buffer the ParallelMixer samples mix once
\* per frame (the mix buffer has one entry per frame) and mixes both samples
\* of frame f with the mix value of frame f, a Dynamic mix included.
C13_MixPerFrame ==
    (sel = "blend" /\ obs.op = "process" /\ obs.n % 2 = 0) =>
        /\ VecLen(pm.mixer.mix_buffer) = obs.n \div 2
        /\ \A i \in 1 .. obs.n :
              obs.out[i] = ParallelMixerBlend(obs.in[i], obs.wet[i],
                               AudioParam_at(pm.mixer.mix, (i - 1) \div 2))

\* C13: a stereo block of at least two frames was mixed under a Dynamic mix
C13_StereoDynamicMixed ==
    /\ sel = "blend"
    /\ obs.op = "process"
    /\ obs.n % 2 = 0
    /\ obs.n >= 4
    /\ pm.mixer.mix.kind = "dynamic"
    /\ pm.fault = "none"

\* C14: around a processor without latency every output sample of the
\* ParallelMixer is dry*(1-mix) + wet*mix, in the 4-sample chunks and in the
\* remainder; with mix = 0 the output is the input block, with mix = 1 it is
\* the wrapped processor's output.
C14_DryWetBlend ==
    (sel = "blend" /\ obs.op = "process") =>
        /\ pm.fault = "none"
        /\ \A i \in 1 .. obs.n :
              obs.out[i] = Mul(obs.in[i], One - AudioParam_at(pm.mixer.mix, i - 1))
                           + Mul(obs.wet[i], AudioParam_at(pm.mixer.mix, i - 1))
        /\ pm.mixer.mix = AudioParam_Static(0) => obs.out = obs.in
        /\ pm.mixer.mix = AudioParam_Static(One) => obs.out = obs.wet

\* C14: a block of a whole chunk and a remainder was mixed half dry, half wet
C14_ChunkAndRemainderMixed ==
    /\ sel = "blend"
    /\ obs.op = "process"
    /\ obs.n > 4
    /\ obs.n % 4 # 0
    /\ pm.mixer.mix = AudioParam_Static(Half)
    /\ obs.out # obs.in
    /\ obs.out # obs.wet


InitAdsrGate == InitFor({"adsr_gate"})

SpecAdsrGate == InitAdsrGate /\ [][AdsrGateNext]_vars

\* the level-driven transitions of the envelope: none, Attack to Decay at
\* full level, Decay to Sustain, Release to Idle
AdsrLevelDriven ==
    {<<st, st>> : st \in {"Idle", "Attack", "Decay", "Sustain", "Release"}}
        \cup {<<"Attack", "Decay">>, <<"Decay", "Sustain">>, <<"Release", "Idle">>}

\* C15: on a sample with no manual trigger pending, a gate that rises through
\* 0.5 since the previous sample fed puts the envelope in Attack and the
\* attack continues from the current level; a gate that falls through 0.5
\* puts it in Release from the current level; a sample without an edge makes
\* no edge-driven transition. The previous sample is the last one fed, in
\* this block or in the block before.
C15_GateEdges ==
    [][(AdsrGateSample /\ ~audio.triggered) =>
          /\ adsr.last_gate = GateFed
          /\ (GateFed < Half /\ obs'.gate >= Half) =>
                /\ adsr'.current_level = Min(adsr.current_level + adsr'.attack_step, One)
                /\ adsr'.state = IF adsr'.current_level = One THEN "Decay" ELSE "Attack"
          /\ (GateFed >= Half /\ obs'.gate < Half) =>
                /\ adsr'.current_level =
                       IF Mul(adsr.current_level, adsr'.release_coeff) < 1 THEN 0
                       ELSE Mul(adsr.current_level, adsr'.release_coeff)
                /\ adsr'.state = IF adsr'.current_level = 0 THEN "Idle" ELSE "Release"
          /\ ((GateFed < Half) = (obs'.gate < Half)) =>
                <<adsr.state, adsr'.state>> \in AdsrLevelDriven
      ]_vars

\* C15: the gate rose between the last sample of one block and the first
\* sample of the next while the envelope was above zero, and the attack went
\* on from that level
C15_EdgeAcrossBlocks ==
    /\ sel = "adsr_gate"
    /\ obs.op = "sample"
    /\ obs.i = 1
    /\ audio.calls = 2
    /\ obs.gate >= Half
    /\ adsr.state = "Attack"
    /\ adsr.current_level > adsr.attack_step


InitGateRun == InitFor({"gate_run"})

SpecGateRun == InitGateRun /\ [][TimedGateRunNext]_vars

\* C16: frame k (from 0) after a trigger() is 1.0 on every channel when
\* k < duration_samples and 0.0 otherwise, for every duration_samples >= 0,
\* in mono and in stereo, however the frames are split into blocks; a
\* trigger() while the gate is high starts the count again, and before the
\* first trigger() every frame is 0.0.
C16_HighForDuration ==
    (sel = "gate_run" /\ obs.op = "process") =>
        \A i \in 1 .. obs.n * gate.channels :
            obs.out[i] = IF /\ obs.from >= 0
                            /\ obs.from + ((i - 1) \div gate.channels) < gate.duration_samples
                         THEN One ELSE 0

\* C16: a stereo gate of 3 frames was triggered and then run over two blocks
C16_StereoGateRan ==
    /\ sel = "gate_run"
    /\ obs.op = "process"
    /\ gate.channels = 2
    /\ gate.duration_samples = 3
    /\ obs.from > 0
    /\ obs.n > 0


InitStereo ==
    InitFor({"stereo_reverb", "stereo_pingpong", "stereo_lowmem", "stereo_dual"})

SpecStereo == InitStereo /\ [][StereoNext]_vars

\* C17: ReverbLowMem, DualMono, PingPongDelay and Reverb given a buffer of
\* odd length do not fault, leave the trailing lone sample as it was, and
\* treat the whole frames as a call on the whole frames alone does: same
\* output, same state afterwards.
C17_OddTailUntouched ==
    (obs.op = "process" /\ obs.n % 2 = 1) =>
        /\ obs.fault = "none"
        /\ obs.out = obs.whole_out \o <<obs.in[obs.n]>>
        /\ obs.same

\* C17: a ReverbLowMem whose first block had whole frames only was then
\* given a buffer of at least one whole frame and a lone sample
C17_OddBlockToLowMem ==
    /\ sel = "stereo_lowmem"
    /\ obs.op = "process"
    /\ obs.n % 2 = 1
    /\ obs.n >= 3
    /\ rlm.calls = 2


InitParam == InitFor({"param"})

SpecParam == InitParam /\ [][ParameterNext]_vars

\* C18: with a Parameter shared through clones by two threads, a get() that
\* returns gives the initial value or a value passed to a set(), on either
\* clone, that started before the get() finished, never a mixture of two; a
\* get() that ran with no set() in progress gives the value of the last
\* set(); and a call in progress can always take its next step, whatever
\* the other thread is doing.
C18_GetSeesWholeSet ==
    /\ (sel = "param" /\ obs.op = "get") =>
          /\ obs.ret \in par.started
          /\ obs.clean => obs.ret = par.last
    /\ \A t \in Threads :
          /\ par.pc[t] = "store" => ENABLED ParameterStore
          /\ par.pc[t] = "set_return" => ENABLED ParameterSetReturn
          /\ par.pc[t] = "load" => ENABLED ParameterLoad
          /\ par.pc[t] = "get_return" => ENABLED ParameterGetReturn

\* C18: a get() on the audio thread's clone returned the second of two
\* values set by the control thread while the sets had stopped
C18_GetAfterSets ==
    /\ sel = "param"
    /\ obs.op = "get"
    /\ obs.t = "audio"
    /\ obs.clean
    /\ par.calls["control"] = 2
    /\ obs.ret \in ParamValues
    /\ Cardinality(par.started) = 3


InitSteady == InitFor({"steady_ola", "steady_mixer", "steady_adsr"})

SpecSteady == InitSteady /\ [][SteadyNext]_vars

\* C19: once a processor has processed one block of n samples, a further
\* block of n samples grows none of its vectors and queues: no capacity
\* changes in a call after the first.
C19_NoGrowthAfterFirstBlock ==
    (obs.op = "steady" /\ ~obs.first) => obs.grew = {}

\* C19: an Ola that had processed a block of 3 samples processed another
\* block of 3 samples, in which it transformed frames
C19_OlaSecondBlock ==
    /\ sel = "steady_ola"
    /\ obs.op = "steady"
    /\ ~obs.first
    /\ obs.n = 3
    /\ host.calls = 2
    /\ Len(ola.p.output_queue) = OLA_N - 2


InitDelayFrac == InitFor({"delay_frac"})

SpecDelayFrac == InitDelayFrac /\ [][DelayFracProcess]_vars

\* C20: Delay reads its ring at the fractional position delay_time *
\* sample_rate samples behind the write position and interpolates linearly
\* between the two neighbouring samples: with feedback 0, every output
\* sample is x*(1 - mix) + mix * (the interpolated input), so a delay of
\* half a sample at mix 1 turns the block [1, 0, 0, 0] into [0.5, 0.5, 0, 0].
C20_FractionalRead ==
    (sel = "delay_frac" /\ obs.op = "process") =>
        \A i \in 1 .. obs.n :
            obs.out[i] = Mul(obs.x[i], One - dl.mix)
                         + Mul(DelayInterpolated(obs.xs, Len(obs.xs) - obs.n + i, dl), dl.mix)

\* C20: the Delay of half a sample at mix 1 processed the block [1, 0, 0, 0]
\* as its first block
C20_HalfSampleImpulse ==
    /\ sel = "delay_frac"
    /\ obs.op = "process"
    /\ dl.calls = 1
    /\ dl.delay_time * dl.sample_rate = Half
    /\ dl.mix = One
    /\ obs.x = <<One, 0, 0, 0>>
    /\ obs.out = <<0, One, 0, 0>>


InitExpand == InitFor({"expand"})

SpecExpand == InitExpand /\ [][ExpandProcess]_vars

\* C21: after MonoToStereo(P) has processed a buffer of F frames, both
\* samples of every frame i < F equal the i-th sample P produced on the F
\* mono samples it was run on; no mono sample is overwritten before it is
\* read, for every F >= 0.
C21_FramesDuplicated ==
    (sel = "expand" /\ obs.op = "process") =>
        /\ obs.fault = "none"
        /\ Len(obs.out) = obs.n
        /\ Len(obs.mono) = obs.n \div 2
        /\ \A i \in 1 .. obs.n \div 2 :
              /\ obs.out[2 * i - 1] = obs.mono[i]
              /\ obs.out[2 * i] = obs.mono[i]

\* C21: a buffer of three frames was expanded in a second call, from three
\* different mono samples
C21_ThreeFramesExpanded ==
    /\ sel = "expand"
    /\ obs.op = "process"
    /\ cv.calls = 2
    /\ obs.n = 6
    /\ Cardinality({obs.mono[i] : i \in 1 .. 3}) = 3
    /\ obs.out[5] = obs.mono[3]


InitUnit == InitFor({"unit"})

SpecUnit == InitUnit /\ [][UnitProcess]_vars

\* the fixed value of a Gain or an Offset made with a constant
UnitFixed(p) ==
    CASE p.kind = "gain" /\ p.gain.kind = "static" -> {p.gain.value}
      [] p.kind = "offset" /\ p.offset.kind = "static" -> {p.offset.value}
      [] OTHER -> {}

\* C22: a Gain with a fixed gain multiplies, and an Offset with a fixed
\* offset adds to, every sample of the buffer exactly once, in the 4-sample
\* chunks and in the remainder, for every buffer length; so Gain(1.0),
\* Offset(0.0) and Passthrough return the buffer unchanged, and Gain(0.5)
\* turns [1, -1, 0, 0.5] into [0.5, -0.5, 0, 0.25].
C22_AppliedOncePerSample ==
    (sel = "unit" /\ obs.op = "process") =>
        /\ Len(obs.out) = obs.n
        /\ \A v \in UnitFixed(cv.p) :
              /\ obs.fault = "none"
              /\ \A i \in 1 .. obs.n :
                    obs.out[i] = IF cv.p.kind = "gain" THEN (obs.in[i] * v) \div One
                                 ELSE obs.in[i] + v
        /\ (\/ cv.p.kind = "passthrough"
            \/ UnitFixed(cv.p) = {IF cv.p.kind = "gain" THEN One ELSE 0})
              => obs.out = obs.in
        /\ (UnitFixed(cv.p) = {Half} /\ cv.p.kind = "gain"
               /\ obs.in = <<One, 0 - One, 0, Half>>)
              => obs.out = <<Half, 0 - Half, 0, Half \div 2>>

\* C22: a Gain(1.0) returned a buffer of one whole chunk and a remainder,
\* with negative and positive samples, in its second call
C22_UnityGainOnChunkAndRemainder ==
    /\ sel = "unit"
    /\ obs.op = "process"
    /\ cv.calls = 2
    /\ cv.p.kind = "gain"
    /\ UnitFixed(cv.p) = {One}
    /\ obs.n = 6
    /\ obs.in[1] < 0
    /\ obs.out[6] = obs.in[6]
    /\ obs.in[6] > 0


InitAdsrRate == InitFor({"adsr_rate"})

SpecAdsrRate == InitAdsrRate /\ [][AdsrRateNext]_vars

\* C23: after a process call of at least one sample, whatever calls of
\* set_sample_rate came before it, the attack step is 1/(attack_s * sr) and
\* the decay and release coefficients are those of the current times at the
\* current sample rate: nothing computed at an earlier rate is in use.
C23_CoefficientsAtCurrentRate ==
    (sel = "adsr_rate" /\ obs.op = "process" /\ obs.n >= 1) =>
        /\ adsr.attack_step = IF adsr.attack_time * adsr.sample_rate > 0
                              THEN (One * One) \div (adsr.attack_time * adsr.sample_rate)
                              ELSE One
        /\ adsr.decay_coeff = AdsrCoeff(adsr.decay_time, adsr.sample_rate)
        /\ adsr.release_coeff = AdsrCoeff(adsr.release_time, adsr.sample_rate)

\* C23: the first process call of an envelope came after set_sample_rate
\* had changed the rate from the one of construction
C23_ProcessedAfterRateChange ==
    /\ sel = "adsr_rate"
    /\ obs.op = "process"
    /\ obs.n >= 1
    /\ audio.calls = 1
    /\ adsr.sample_rate # SampleRate


InitOlaQueue == InitFor({"ola_q"})

SpecOlaQueue == InitOlaQueue /\ [][OlaQueueNext]_vars

\* C24: after every process call of an Ola, for any sequence of block
\* sizes, the input queue is shorter than N and the two queues together
\* hold N samples; no sample is popped from an empty output queue; the
\* first N samples emitted after construction or reset are the prefilled
\* zeros; and the frames of a call take N/2 samples each from the input
\* queue and add N/2 each to the output queue.
C24_QueuesHoldN ==
    (sel = "ola_q" /\ obs.op = "process") =>
        /\ Len(ola.p.input_queue) < OLA_N
        /\ Len(ola.p.input_queue) + Len(ola.p.output_queue) = OLA_N
        /\ obs.out_framed >= obs.n
        /\ \A i \in 1 .. obs.n : obs.emitted + i <= OLA_N => obs.out[i] = 0
        /\ \E frames \in 0 .. MaxBlock :
              /\ obs.in_before + obs.n - obs.in_framed = frames * (OLA_N \div 2)
              /\ obs.out_framed - obs.out_before = frames * (OLA_N \div 2)
              /\ (frames = 0) = (obs.in_before + obs.n < OLA_N)

\* C24: a third block in a row took the output queue down to one sample
\* after frames had been transformed in it
C24_ThirdBlockFramed ==
    /\ sel = "ola_q"
    /\ obs.op = "process"
    /\ obs.emitted >= OLA_N
    /\ ola.calls = 3
    /\ obs.out_framed > obs.out_before
    /\ Len(ola.p.output_queue) = 1


InitAdsrRun == InitFor({"adsr_run"})

SpecAdsrRun == InitAdsrRun /\ [][AdsrRunNext]_vars

\* C25: on every sample, over any sequence of gate samples and triggers,
\* the envelope enters Decay only from Attack with the level at 1, Sustain
\* only from Decay and Idle only from Release; it leaves Sustain only by a
\* falling gate edge, to Release, or by a rising edge or a manual trigger,
\* to Attack, so that in Sustain with the gate staying low it stays in
\* Sustain. obs.edge is the state after the sample's edge logic, from which
\* the level-driven step starts.
C25_TransitionsOnlyAsDrawn ==
    (sel = "adsr_run" /\ obs.op = "sample") =>
        /\ (adsr.state = "Decay" /\ obs.edge # "Decay") =>
              (obs.edge = "Attack" /\ adsr.current_level = One)
        /\ (adsr.state = "Sustain" /\ obs.edge # "Sustain") => obs.edge = "Decay"
        /\ (adsr.state = "Idle" /\ obs.edge # "Idle") => obs.edge = "Release"
        /\ obs.from = "Sustain" =>
              \/ obs.edge = "Sustain" /\ adsr.state = "Sustain"
              \/ /\ obs.edge = "Release"
                 /\ ~obs.triggered
                 /\ obs.last_gate >= Half /\ obs.gate < Half
              \/ /\ obs.edge = "Attack"
                 /\ obs.triggered \/ (obs.last_gate < Half /\ obs.gate >= Half)
        /\ (obs.from = "Sustain" /\ ~obs.triggered /\ obs.last_gate < Half
               /\ obs.gate < Half) => adsr.state = "Sustain"

\* C25: after a manual trigger with the gate low all along, the envelope
\* was in Sustain and a further sample with the gate low left it there
C25_SustainedWithGateLow ==
    /\ sel = "adsr_run"
    /\ obs.op = "sample"
    /\ obs.from = "Sustain"
    /\ adsr.state = "Sustain"
    /\ obs.last_gate < Half
    /\ obs.gate < Half


InitAdsrLive == InitFor({"adsr_live"})

\* the host's audio callback keeps calling process() and every call runs
\* to its end: the step the callback is at is always taken eventually
SpecAdsrLive == InitAdsrLive /\ [][AdsrLiveNext]_vars /\ WF_vars(AdsrLiveNext)

\* a sample on which neither a rising gate edge nor a trigger acted
AdsrQuiet == ~obs.triggered /\ ~(obs.last_gate < Half /\ obs.gate >= Half)

---------------------------------------------------------------------------
(* C27 *)

InitSum == InitFor({"sum"})

SpecSum == InitSum /\ [][SumProcess]_vars

\* C27: the output of a SummingMixer with unit gain and no soft clip is,
\* sample by sample, the output of the first input on the block plus the
\* outputs of the further inputs, each run on a scratch block that holds
\* nothing written by the input before it in this call: the block handed to
\* input k >= 3 is the block that was handed to input k-1. With no inputs the
\* output is all zeros, and latency_samples() is the largest latency of the
\* inputs (0 with none).
C27_SumOfIndependentInputs ==
    (sel = "sum" /\ obs.op = "sum") =>
        /\ obs.carried = {}
        /\ \A i \in 1 .. obs.n : obs.out[i] = obs.first[i] + obs.apart[i]
        /\ obs.m = 0 => \A i \in 1 .. obs.n : obs.out[i] = 0
        /\ \A k \in DOMAIN cv.p.inputs :
              FrameProcessor_latency_samples(cv.p)
                  >= FrameProcessor_latency_samples(cv.p.inputs[k])
        /\ \/ cv.p.inputs = << >> /\ FrameProcessor_latency_samples(cv.p) = 0
           \/ \E k \in DOMAIN cv.p.inputs :
                 FrameProcessor_latency_samples(cv.p)
                     = FrameProcessor_latency_samples(cv.p.inputs[k])

\* C27: a mixer of three inputs has processed a block of at least one sample
C27_ThreeInputsSummed ==
    /\ sel = "sum"
    /\ obs.op = "sum"
    /\ obs.m = 3
    /\ obs.n > 0
    /\ cv.p.inputs[3].kind = "offset"

---------------------------------------------------------------------------
(* C28 *)

InitLowMemPairs == InitFor({"lowmem_pairs"})

SpecLowMemPairs == InitLowMemPairs /\ [][LowMemPairNext]_vars

\* the pairs of frames completed among the first n frames that went to
\* ring slot `slot` of a ring of len slots
LowMemPairsOf(slot, n, len) == {j \in 0 .. (n \div 2) - 1 : j % len = slot}

\* the last of a non-empty set of pairs
LowMemLastPair(js) == CHOOSE j \in js : \A i \in js : i <= j

\* C28: in a DelayLowMem with a ring of len >= 1 slots, after n frames since
\* construction or reset, in any partition into blocks, phase = n mod 2 and
\* write_ptr = floor(n/2) mod len; a call changes no ring slot other than
\* those of the pairs it completed, and without feedback every slot holds
\* the average of the two frames of the last pair that went to it (0 if
\* none did).
C28_OneSlotPerPair ==
    (sel = "lowmem_pairs" /\ obs.op # "none" /\ lm.fault = "none") =>
        /\ lm.phase = obs.total % 2
        /\ lm.write_ptr = (obs.total \div 2) % VecLen(lm.buffer)
        /\ \A slot \in DOMAIN lm.buffer :
              (\A j \in obs.from \div 2 .. (obs.total \div 2) - 1 :
                  j % VecLen(lm.buffer) # slot)
                 => lm.buffer[slot] = obs.before[slot]
        /\ lm.feedback = 0 =>
              \A slot \in DOMAIN lm.buffer :
                 lm.buffer[slot] =
                    IF LowMemPairsOf(slot, obs.total, VecLen(lm.buffer)) = {} THEN 0
                    ELSE LowMemToI16(
                            (LowMemInput(2 * LowMemLastPair(LowMemPairsOf(slot, obs.total,
                                                               VecLen(lm.buffer))) + 1)
                             + LowMemInput(2 * LowMemLastPair(LowMemPairsOf(slot, obs.total,
                                                                 VecLen(lm.buffer))) + 2))
                            \div 2)

\* C28: a call that began in phase 1 with a block long enough for the
\* prefix frame and a group of four has wrapped a ring of 3 slots
C28_PrefixThenGroupWrapped ==
    /\ sel = "lowmem_pairs"
    /\ obs.op = "process"
    /\ lm.fault = "none"
    /\ VecLen(lm.buffer) = 3
    /\ obs.from % 2 = 1
    /\ obs.total - obs.from >= 5
    /\ obs.total \div 2 >= 3

---------------------------------------------------------------------------
(* C29 *)

InitPhase == InitFor({"phase_osc", "phase_lfo"})

SpecPhase == InitPhase /\ [][PhaseNext]_vars

\* C29: after every sample the phase of the Oscillator and the phase of the
\* Lfo lie in [0, 1), whatever frequencies with |freq| < sample_rate, positive
\* or negative, the samples were given.
C29_PhaseInUnitInterval ==
    /\ sel = "phase_osc" => (0 <= cv.p.phase /\ cv.p.phase < One)
    /\ sel = "phase_lfo" => (0 <= lfo.phase /\ lfo.phase < One)

\* C29: an Lfo has processed a sample with a negative frequency
C29_LfoRanBackwards ==
    /\ sel = "phase_lfo"
    /\ obs.op = "lfo"
    /\ obs.from = 0
    /\ obs.back
    /\ lfo.phase < 0

---------------------------------------------------------------------------
(* C30 *)

InitNoise == InitFor({"noise"})

SpecNoise == InitNoise /\ [][OscNoiseProcess]_vars

\* state_k = (state_{k-1} * 1103515245 + 12345) mod 2^32 from state_0 =
\* 12345, k = 1 .. 12, as 16-bit halves
NoiseStates ==
    <<[hi |-> 54236, lo |-> 5758], [hi |-> 42756, lo |-> 10207],
      [hi |-> 54885, lo |-> 7212], [hi |-> 3498, lo |-> 38645],
      [hi |-> 49695, lo |-> 7306], [hi |-> 16045, lo |-> 25339],
      [hi |-> 52509, lo |-> 53016], [hi |-> 44890, lo |-> 44401],
      [hi |-> 8410, lo |-> 30550], [hi |-> 45029, lo |-> 13271],
      [hi |-> 27052, lo |-> 50372], [hi |-> 38427, lo |-> 44973]>>

\* bits 16 to 30 of state_k
NoiseBits ==
    <<21468, 9988, 22117, 3498, 16927, 16045, 19741, 12122, 8410, 12261, 27052, 5659>>

====
